---------------------------- MODULE Spec2Model ----------------------------
(***************************************************************************)
(* A model of trivy-kubernetes: the job runner (runnableJob.Run), the      *)
(* image-pull credential resolver, the BOM assembler and the               *)
(* resource-to-artifact extractor.                                         *)
(*                                                                         *)
(* Strings that the code inspects character by character (registry hosts,  *)
(* user names, passwords) are tuples of one-character strings; strings the *)
(* code only compares are TLA+ strings.                                    *)
(*                                                                         *)
(* Each operation has its own program counter; "idle" is an operation that *)
(* has not been invoked.  JobSpec, CredSpec, BomSpec and ArtifactSpec each *)
(* run one operation; Spec runs any one of them.                           *)
(***************************************************************************)
EXTENDS Naturals, Sequences, FiniteSets, TLC

\* ------------------------------------------------------------------ bounds
\* conditions a job's status may accumulate
MaxConds == 2
\* image pull secret references of a pod spec
MaxRefs == 2
\* entries of one container list of a resource
MaxContainers == 2
\* spec containers of a pod
MaxPodContainers == 2
\* notifications pending in one informer listener
MaxQueue == 2

\* --------------------------------------------------------------- variables
VARIABLES
    \* ---- runnableJob.Run
    runPc,      \* position of Run
    runErr,     \* the value Run returned ("pending" before it returns)
    ctxDone,    \* the context passed to Run is cancelled
    jobs,       \* API server: job UID -> its status conditions (types, in order)
    created,    \* API server: the UIDs of the jobs that exist
    warned,     \* API server: a Warning event about the tracked job exists
    started,    \* informerFactory.Start has run
    jobQ,       \* notifications pending for the jobs informer's handler
    eventQ,     \* notifications pending for the events informer's handler
    jobCb,      \* the value the job handler is blocked sending on complete
    eventCb,    \* the value the event handler is blocked sending on complete
    \* ---- cluster.ListImagePullSecretsByPodSpec, MapContainerNamesToDockerAuths
    credPc,     \* position of the credential resolution
    podSpec,    \* its argument spec: <<>> for nil, else <<the pod spec>>
    imagePullSecrets, \* its local list of secret references
    refIdx,     \* ListByLocalObjectReferences: the references handled so far
    secrets,    \* ListByLocalObjectReferences: the secrets collected so far
    credRet,    \* the mapping it returned: <<>> for nil, else <<the mapping>>
    credErr,    \* the error it returned ("nil" for none)
    matched,    \* what MapContainerNamesToDockerAuths returned (<<>> before)
    \* ---- cluster.CreateBomComponents, cluster.CreateClusterBom
    bomPc,      \* position of the BOM build
    bomCall,    \* the method called and its namespace argument
    labelsLeft, \* collectComponents: the entries of labels not yet visited
    components, \* collectComponents: its local slice components
    bomComponents, \* CreateBomComponents: components, then components and addons
    nodesInfo,  \* CreateClusterBom: what CollectNodes returned
    podListErrs,\* the errors the pod listings of this build returned
    nodeListErr,\* the error the node listing returned ("nil" for none)
    bomRet,     \* the result returned: <<>> for nil, else <<the result>>
    bomErr,     \* the error returned ("nil" for none)
    \* ---- artifacts.FromResource
    artPc,      \* position of FromResource
    resource,   \* its argument
    artRet,     \* what it returned: the Artifact (<<>> for nil) and the error
    \* ---- GetContainer, PodInfo, NodeInfo
    infoPc,       \* which of the three is called, and whether it returned
    imageArgs,    \* GetContainer: imageName and imageId
    podArg,       \* PodInfo: the pod
    selectorArg,  \* PodInfo: the label selector the pod was listed with
    nodeArg,      \* NodeInfo: the node
    podIds,       \* PodInfo: ids, what getImageIDsByStatuses returned
    containerRet, \* GetContainer: the Container (<<>> for none) and the error
    componentRet, \* PodInfo: the Component (<<>> before the return)
    nodeRet,      \* NodeInfo: the NodeInfo (<<>> before the return)
    \* ---- cluster.Platform
    platPc,     \* position of Platform
    platIn,     \* what the cluster answers to the calls of Platform
    nodeName,   \* Platfrom: nodeName
    platRet     \* what Platform returned (<<>> before the return)

jobVars == <<runPc, runErr, ctxDone, jobs, created, warned, started,
             jobQ, eventQ, jobCb, eventCb>>

credVars == <<credPc, podSpec, imagePullSecrets, refIdx, secrets, credRet,
              credErr, matched>>

bomVars == <<bomPc, bomCall, labelsLeft, components, bomComponents, nodesInfo,
             podListErrs, nodeListErr, bomRet, bomErr>>

artVars == <<artPc, resource, artRet>>

infoVars ==
    <<infoPc, imageArgs, podArg, selectorArg, nodeArg, podIds, containerRet, componentRet, nodeRet>>

platVars == <<platPc, platIn, nodeName, platRet>>

vars == <<jobVars, credVars, bomVars, artVars, infoVars, platVars>>

notJob == <<credVars, bomVars, artVars, infoVars, platVars>>
notCred == <<jobVars, bomVars, artVars, infoVars, platVars>>
notBom == <<jobVars, credVars, artVars, infoVars, platVars>>
notArt == <<jobVars, credVars, bomVars, infoVars, platVars>>
notInfo == <<jobVars, credVars, bomVars, artVars, platVars>>
notPlat == <<jobVars, credVars, bomVars, artVars, infoVars>>

\* ------------------------------------------------------------ runnableJob
\* r.job.UID after Create, and the UID of another job of the namespace
TrackedUID == "job"
OtherUID == "other"
UIDs == {TrackedUID, OtherUID}

JobComplete == "Complete"
JobSuccessCriteriaMet == "SuccessCriteriaMet"
JobFailed == "Failed"
JobSuspended == "Suspended"
ConditionTypes == {JobComplete, JobSuccessCriteriaMet, JobFailed, JobSuspended}
TerminalTypes == {JobComplete, JobSuccessCriteriaMet, JobFailed}

EventTypeNormal == "Normal"
EventTypeWarning == "Warning"
EventTypes == {EventTypeNormal, EventTypeWarning}

\* what a handler sends on the channel; NoSignal: it returns without sending
NoSignal == "none"
SigNil == "nil"
SigJobFailed == "job failed"
SigWarning == "warning event received"

\* the loop over newJob.Status.Conditions: the first condition of a terminal
\* type decides (condition.Status is not read)
RECURSIVE ScanConditions(_)
ScanConditions(conds) ==
    IF conds = <<>> THEN NoSignal
    ELSE IF Head(conds) \in {JobComplete, JobSuccessCriteriaMet} THEN SigNil
    ELSE IF Head(conds) = JobFailed THEN SigJobFailed
    ELSE ScanConditions(Tail(conds))

\* mutant: the UID comparison is missing
UpdateFuncNoUID(n) == ScanConditions(n.conds)

\* mutant: SuccessCriteriaMet is not recognised
RECURSIVE ScanOnlyComplete(_)
ScanOnlyComplete(conds) ==
    IF conds = <<>> THEN NoSignal
    ELSE IF Head(conds) = JobComplete THEN SigNil
    ELSE IF Head(conds) = JobFailed THEN SigJobFailed
    ELSE ScanOnlyComplete(Tail(conds))

UpdateFuncNoSCM(n) ==
    IF n.uid # TrackedUID THEN NoSignal ELSE ScanOnlyComplete(n.conds)

\* the jobs informer's UpdateFunc on an update notification
UpdateFunc(n) ==
    IF n.uid # TrackedUID THEN NoSignal ELSE ScanConditions(n.conds)

\* the events informer's AddFunc on an add notification
AddFunc(e) ==
    IF e.uid # TrackedUID THEN NoSignal
    ELSE IF e.type = EventTypeWarning THEN SigWarning
    ELSE NoSignal

\* the handler registered with the jobs informer: only UpdateFunc is set, so
\* an add notification (the initial listing) calls nothing
JobHandler(n) == IF n.kind = "update" THEN UpdateFunc(n) ELSE NoSignal

\* the initial listing of the jobs informer: one add notification per job
RECURSIVE ListJobs(_, _)
ListJobs(uids, js) ==
    IF uids = {} THEN <<>>
    ELSE LET u == CHOOSE x \in uids : TRUE
         IN <<[kind |-> "add", uid |-> u, conds |-> js[u]]>>
            \o ListJobs(uids \ {u}, js)

\* a resync of the jobs informer (defaultResyncDuration): one update
\* notification per cached job, old and new object being the same
RECURSIVE ResyncJobs(_, _)
ResyncJobs(uids, js) ==
    IF uids = {} THEN <<>>
    ELSE LET u == CHOOSE x \in uids : TRUE
         IN <<[kind |-> "update", uid |-> u, conds |-> js[u]]>>
            \o ResyncJobs(uids \ {u}, js)

JobIdle ==
    /\ runPc = "idle"
    /\ runErr = "pending"
    /\ ctxDone = FALSE
    /\ jobs = [u \in UIDs |-> <<>>]
    /\ created = {}
    /\ warned = FALSE
    /\ started = FALSE
    /\ jobQ = <<>>
    /\ eventQ = <<>>
    /\ jobCb = NoSignal
    /\ eventCb = NoSignal

\* NewRunnableJob: the job is not created yet; the namespace holds another
\* job, which has finished
JobInit ==
    /\ runPc = "create"
    /\ runErr = "pending"
    /\ ctxDone = FALSE
    /\ jobs = [u \in UIDs |-> IF u = OtherUID THEN <<JobComplete>> ELSE <<>>]
    /\ created = {OtherUID}
    /\ warned = FALSE
    /\ started = FALSE
    /\ jobQ = <<>>
    /\ eventQ = <<>>
    /\ jobCb = NoSignal
    /\ eventCb = NoSignal

\* Jobs(ns).Create fails: Run returns the error
RunCreateFails ==
    /\ runPc = "create"
    /\ runPc' = "done"
    /\ runErr' = "create error"
    /\ UNCHANGED <<ctxDone, jobs, created, warned, started, jobQ, eventQ, jobCb, eventCb, notJob>>

\* Jobs(ns).Create succeeds (not with a cancelled context): r.job is the
\* created job
RunCreate ==
    /\ runPc = "create"
    /\ ~ctxDone
    /\ created' = created \cup {TrackedUID}
    /\ runPc' = "handlers"
    /\ UNCHANGED <<runErr, ctxDone, jobs, warned, started, jobQ, eventQ, jobCb, eventCb, notJob>>

\* one of the two AddEventHandler calls returns an error
RunAddEventHandlerFails ==
    /\ runPc = "handlers"
    /\ runPc' = "done"
    /\ runErr' = "handler error"
    /\ UNCHANGED <<ctxDone, jobs, created, warned, started, jobQ, eventQ, jobCb, eventCb, notJob>>

\* both handlers are registered; informerFactory.Start and WaitForCacheSync:
\* every informer lists what exists and notifies its handler of each object
RunStart ==
    /\ runPc = "handlers"
    /\ started' = TRUE
    /\ jobQ' = ListJobs(created, jobs)
    /\ runPc' = "wait"
    /\ UNCHANGED <<runErr, ctxDone, jobs, created, warned, eventQ, jobCb, eventCb, notJob>>

\* err = <-complete, with the job handler as the sender
RunReceiveJob ==
    /\ runPc = "wait"
    /\ jobCb # NoSignal
    /\ runErr' = jobCb
    /\ jobCb' = NoSignal
    /\ runPc' = "done"
    /\ UNCHANGED <<ctxDone, jobs, created, warned, started, jobQ, eventQ, eventCb, notJob>>

\* err = <-complete, with the event handler as the sender
RunReceiveEvent ==
    /\ runPc = "wait"
    /\ eventCb # NoSignal
    /\ runErr' = eventCb
    /\ eventCb' = NoSignal
    /\ runPc' = "done"
    /\ UNCHANGED <<ctxDone, jobs, created, warned, started, jobQ, eventQ, jobCb, notJob>>

\* the jobs informer's listener goroutine takes the next notification and
\* calls the handler, which returns or blocks on complete <- ...
JobNotify ==
    /\ started
    /\ jobCb = NoSignal
    /\ jobQ # <<>>
    /\ jobCb' = JobHandler(Head(jobQ))
    /\ jobQ' = Tail(jobQ)
    /\ UNCHANGED <<runPc, runErr, ctxDone, jobs, created, warned, started, eventQ, eventCb, notJob>>

\* the events informer's listener goroutine, likewise
EventNotify ==
    /\ started
    /\ eventCb = NoSignal
    /\ eventQ # <<>>
    /\ eventCb' = AddFunc(Head(eventQ))
    /\ eventQ' = Tail(eventQ)
    /\ UNCHANGED <<runPc, runErr, ctxDone, jobs, created, warned, started, jobQ, jobCb, notJob>>

\* the resync timer of the jobs informer fires
Resync ==
    /\ started
    /\ created # {}
    /\ Len(jobQ) + Cardinality(created) <= MaxQueue
    /\ jobQ' = jobQ \o ResyncJobs(created, jobs)
    /\ UNCHANGED <<runPc, runErr, ctxDone, jobs, created, warned, started, eventQ, jobCb, eventCb, notJob>>

\* the job controller adds a condition to the tracked job's status (a status
\* holds one condition of a type); a started informer is notified of the
\* update
EnvJobCondition ==
    \E u \in created \cap {TrackedUID}, c \in ConditionTypes :
        /\ Len(jobs[u]) < MaxConds
        /\ \A i \in 1..Len(jobs[u]) : jobs[u][i] # c
        /\ started => Len(jobQ) < MaxQueue
        /\ jobs' = [jobs EXCEPT ![u] = Append(@, c)]
        /\ jobQ' = IF started
                   THEN Append(jobQ, [kind |-> "update", uid |-> u, conds |-> jobs'[u]])
                   ELSE jobQ
        /\ UNCHANGED <<runPc, runErr, ctxDone, created, warned, started, eventQ, jobCb, eventCb, notJob>>

\* an event about a job is created (about the other job: a Warning, its
\* type is not read).  The events informer notifies its handler of every
\* event: of those that exist when it starts (its initial listing) and of
\* those created later, so eventQ holds both
EnvEvent ==
    \E u \in created, t \in EventTypes :
        /\ u = OtherUID => t = EventTypeWarning
        /\ Len(eventQ) < MaxQueue
        /\ eventQ' = Append(eventQ, [uid |-> u, type |-> t])
        /\ warned' = (warned \/ (u = TrackedUID /\ t = EventTypeWarning))
        /\ UNCHANGED <<runPc, runErr, ctxDone, jobs, created, started, jobQ, jobCb, eventCb, notJob>>

\* the caller cancels the context, or its deadline passes, while Run runs
CtxCancel ==
    /\ runPc \in {"create", "handlers", "wait"}
    /\ ~ctxDone
    /\ ctxDone' = TRUE
    /\ UNCHANGED <<runPc, runErr, jobs, created, warned, started, jobQ, eventQ, jobCb, eventCb, notJob>>

\* ----------------------------------------------------------------- strings
Comma == <<",">>

\* strings.HasPrefix
HasPrefix(str, prefix) ==
    /\ Len(prefix) <= Len(str)
    /\ SubSeq(str, 1, Len(prefix)) = prefix

\* strings.HasSuffix
HasSuffix(str, suffix) ==
    /\ Len(suffix) <= Len(str)
    /\ SubSeq(str, Len(str) - Len(suffix) + 1, Len(str)) = suffix

\* strings.Replace(str, old, "", 1) for a one-character old
RECURSIVE RemoveFirst(_, _)
RemoveFirst(str, old) ==
    IF str = <<>> THEN <<>>
    ELSE IF Head(str) = old THEN Tail(str)
    ELSE <<Head(str)>> \o RemoveFirst(Tail(str), old)

\* strings.Contains
Contains(str, substr) ==
    \E i \in 0..(Len(str) - Len(substr)) : \A j \in 1..Len(substr) : str[i + j] = substr[j]

\* strings.Index, for a substr that str contains: the first offset
Index(str, substr) ==
    LET offsets == {i \in 0..(Len(str) - Len(substr)) :
                       \A j \in 1..Len(substr) : str[i + j] = substr[j]}
    IN CHOOSE i \in offsets : \A k \in offsets : i <= k

\* strings.Split(str, sep) for a one-character sep
RECURSIVE Split(_, _)
Split(str, sep) ==
    IF ~Contains(str, <<sep>>) THEN <<str>>
    ELSE LET i == Index(str, <<sep>>)
         IN <<SubSeq(str, 1, i)>> \o Split(SubSeq(str, i + 2, Len(str)), sep)

\* strings.Trim(str, cutset) for a cutset of one character: the character
\* is removed at both ends (strings.TrimSpace is Trim(str, " "): the
\* strings here hold no other white space)
Trim(str, cut) ==
    LET kept == {i \in 1..Len(str) : str[i] # cut}
    IN IF kept = {} THEN <<>>
       ELSE SubSeq(str, CHOOSE i \in kept : \A k \in kept : i <= k,
                        CHOOSE i \in kept : \A k \in kept : i >= k)

\* strings.ToLower, on the letters the strings here hold in upper case
ToLower(str) ==
    [i \in 1..Len(str) |->
        CASE str[i] = "A" -> "a" [] str[i] = "E" -> "e"
          [] str[i] = "K" -> "k" [] str[i] = "V" -> "v"
          [] OTHER -> str[i]]

\* ------------------------------------------------- the credential resolver
\* registry servers: "a.c", "b.a.c", "*.a.c", "*.c"
Host_ac == <<"a", ".", "c">>
Host_bac == <<"b", ".", "a", ".", "c">>
Wild_ac == <<"*", ".", "a", ".", "c">>
Wild_c == <<"*", ".", "c">>
\* hosts of images only: "e.a.c", "ea.c", "d"
Host_eac == <<"e", ".", "a", ".", "c">>
Host_ea_c == <<"e", "a", ".", "c">>
Host_d == <<"d">>
ImageHosts == {Host_ac, Host_bac, Host_eac, Host_ea_c, Host_d}
\* image references "<host>/r", and the empty reference, which does not parse
ImageRefs == {h \o <<"/", "r">> : h \in ImageHosts} \cup {<<>>}

SecretTypeDockerConfigJson == "kubernetes.io/dockerconfigjson"
SecretTypeDockercfg == "kubernetes.io/dockercfg"
SecretTypeOpaque == "Opaque"

serviceAccountDefault == "default"

Auth(user, pass) == [Username |-> user, Password |-> pass]

\* k8sapierror.IsNotFound, k8sapierror.IsForbidden on the error of an API call
IsNotFound(err) == err = "NotFound"
IsForbidden(err) == err = "Forbidden"

\* The cluster the resolver reads.  Secrets of the namespace, by name: two
\* Docker secrets that share the server "a.c" (s1 modern, s2 legacy), a
\* secret of another type, a Docker secret without its data key, and one
\* whose payload does not decode; auths is the decoded payload, a mapping
\* from server to credential
SecretObjects ==
    [ s1 |-> [name |-> "s1", type |-> SecretTypeDockerConfigJson,
              hasRequiredData |-> TRUE, malformed |-> FALSE,
              auths |-> (Host_ac :> Auth(<<"u">>, <<"p">>))
                        @@ (Wild_c :> Auth(<<"w">>, <<"q">>))],
      s2 |-> [name |-> "s2", type |-> SecretTypeDockercfg,
              hasRequiredData |-> TRUE, malformed |-> FALSE,
              auths |-> (Host_ac :> Auth(<<"v">>, <<"r">>))
                        @@ (Wild_ac :> Auth(<<"x">>, <<"s">>))
                        @@ (Host_bac :> Auth(<<"y">>, <<"t">>))],
      opaque |-> [name |-> "opaque", type |-> SecretTypeOpaque,
              hasRequiredData |-> TRUE, malformed |-> FALSE,
              auths |-> (Host_ac :> Auth(<<"o">>, <<"o">>))],
      nodata |-> [name |-> "nodata", type |-> SecretTypeDockerConfigJson,
              hasRequiredData |-> FALSE, malformed |-> FALSE,
              auths |-> (Host_ac :> Auth(<<"n">>, <<"n">>))],
      bad |-> [name |-> "bad", type |-> SecretTypeDockerConfigJson,
              hasRequiredData |-> TRUE, malformed |-> TRUE,
              auths |-> (Host_ac :> Auth(<<"m">>, <<"m">>))] ]

\* the names a reference may hold: the secrets above, three names whose
\* lookup fails (not found, forbidden, another error), and the empty name
RefNames == {"s1", "s2", "opaque", "nodata", "bad", "gone", "denied", "broken", ""}

\* Secrets(ns).Get(name): the secret, or the error
SecretGet(name) ==
    IF name \in DOMAIN SecretObjects THEN [err |-> "nil", secret |-> <<SecretObjects[name]>>]
    ELSE IF name = "gone" THEN [err |-> "NotFound", secret |-> <<>>]
    ELSE IF name = "denied" THEN [err |-> "Forbidden", secret |-> <<>>]
    ELSE [err |-> "Other", secret |-> <<>>]

\* the service account names a pod spec may hold
ServiceAccountNames == {"", "builder", "missing", "locked", "down"}

\* ServiceAccounts(ns).Get(name): the account (an empty one with an error)
ServiceAccountGet(name) ==
    IF name = serviceAccountDefault THEN [err |-> "nil", ImagePullSecrets |-> <<"s1">>]
    ELSE IF name = "builder" THEN [err |-> "nil", ImagePullSecrets |-> <<"s2", "gone">>]
    ELSE IF name = "missing" THEN [err |-> "NotFound", ImagePullSecrets |-> <<>>]
    ELSE IF name = "locked" THEN [err |-> "Forbidden", ImagePullSecrets |-> <<>>]
    ELSE [err |-> "Other", ImagePullSecrets |-> <<>>]

RefLists == UNION {[1..n -> RefNames] : n \in 0..MaxRefs}

PodSpecs == [ServiceAccountName : ServiceAccountNames, ImagePullSecrets : RefLists]

getServiceAccountByPodSpec(spec) ==
    ServiceAccountGet(IF spec.ServiceAccountName = ""
                      THEN serviceAccountDefault
                      ELSE spec.ServiceAccountName)

\* mutant: the pod spec's references come first
AppendServiceAccountSecrets(saRefs, specRefs) == specRefs \o saRefs

\* imagePullSecrets = append(sa.ImagePullSecrets, imagePullSecrets...)
PrependServiceAccountSecrets(saRefs, specRefs) == saRefs \o specRefs

\* mutant: every failed lookup is skipped
SecretLookupSkipAll(err) == IF err = "nil" THEN "append" ELSE "continue"

\* ListByLocalObjectReferences, after Secrets(ns).Get: what the loop does
SecretLookupStep(err) ==
    IF err = "nil" THEN "append"
    ELSE IF IsNotFound(err) \/ IsForbidden(err) THEN "continue"
    ELSE "return"

\* docker.GetServerFromDockerAuthKey: the server of a key of the decoded
\* payload, which is a mapping from server to credential
GetServerFromDockerAuthKey(authKey) == authKey

\* mutant: a server already in the mapping is overwritten
MergeAuthOverwrite(auths, server, auth, multiSecretSupport) ==
    (server :> auth) @@ auths

\* the body of the loop over dockerConfig.Auths
MergeAuth(auths, server, auth, multiSecretSupport) ==
    IF multiSecretSupport /\ server \in DOMAIN auths
    THEN [auths EXCEPT ![server] =
            Auth(@.Username \o Comma \o auth.Username,
                 @.Password \o Comma \o auth.Password)]
    ELSE (server :> auth) @@ auths

\* the loop over dockerConfig.Auths (the servers of one payload differ, so
\* the order of the iteration does not show)
RECURSIVE MergeConfig(_, _, _, _)
MergeConfig(keys, dockerAuths, auths, multiSecretSupport) ==
    IF keys = {} THEN auths
    ELSE LET authKey == CHOOSE k \in keys : TRUE
         IN MergeConfig(keys \ {authKey}, dockerAuths,
                        MergeAuth(auths, GetServerFromDockerAuthKey(authKey),
                                  dockerAuths[authKey], multiSecretSupport),
                        multiSecretSupport)

\* the loop over imagePullSecrets
RECURSIVE MapSecrets(_, _, _)
MapSecrets(secs, auths, multiSecretSupport) ==
    IF secs = <<>> THEN [auths |-> <<auths>>, err |-> "nil"]
    ELSE LET secret == Head(secs)
         IN IF secret.type \notin {SecretTypeDockerConfigJson, SecretTypeDockercfg}
            THEN MapSecrets(Tail(secs), auths, multiSecretSupport)
            ELSE IF ~secret.hasRequiredData
            THEN MapSecrets(Tail(secs), auths, multiSecretSupport)
            ELSE IF secret.malformed
            THEN [auths |-> <<>>, err |-> "reading secret"]
            ELSE MapSecrets(Tail(secs),
                            MergeConfig(DOMAIN secret.auths, secret.auths,
                                        auths, multiSecretSupport),
                            multiSecretSupport)

mapDockerRegistryServersToAuths(secs, multiSecretSupport) ==
    MapSecrets(secs, <<>>, multiSecretSupport)

\* docker.GetServerFromImageRef: the registry host of an image reference,
\* the part before the first "/"
RECURSIVE UpToSlash(_)
UpToSlash(str) ==
    IF str = <<>> \/ Head(str) = "/" THEN <<>>
    ELSE <<Head(str)>> \o UpToSlash(Tail(str))

GetServerFromImageRef(imageRef) ==
    IF imageRef = <<>> THEN [server |-> <<>>, err |-> "parse error"]
    ELSE [server |-> UpToSlash(imageRef), err |-> "nil"]

\* GetWildcardServers: the keys with the prefix "*.", as a set; the slice
\* the code builds holds them in the order of a map iteration
GetWildcardServers(auths) ==
    {server \in DOMAIN auths : HasPrefix(server, <<"*", ".">>)}

\* the orders a map iteration may visit a set of keys in
Orders(keys) ==
    {o \in [1..Cardinality(keys) -> keys] :
        \A i, j \in 1..Cardinality(keys) : i # j => o[i] # o[j]}

\* mutant: the first wildcard key matches every host
matchAnyDomain(wildcardServers, subDomain) ==
    IF wildcardServers = <<>> THEN <<>> ELSE Head(wildcardServers)

RECURSIVE matchSubDomain(_, _)
matchSubDomain(wildcardServers, subDomain) ==
    IF wildcardServers = <<>> THEN <<>>
    ELSE LET domain == Head(wildcardServers)
             domainWithoutWildcard == RemoveFirst(domain, "*")
         IN IF HasSuffix(subDomain, domainWithoutWildcard)
            THEN domain
            ELSE matchSubDomain(Tail(wildcardServers), subDomain)

\* MapContainerNamesToDockerAuths, wildcardServers being the slice that
\* GetWildcardServers returned; auth is <<>> for a nil pointer
MapContainerNamesToDockerAuths(imageRef, auths, wildcardServers) ==
    LET got == GetServerFromImageRef(imageRef)
        server == got.server
    IN IF got.err # "nil" THEN [auth |-> <<Auth(<<>>, <<>>)>>, err |-> got.err]
       ELSE IF server \in DOMAIN auths THEN [auth |-> <<auths[server]>>, err |-> "nil"]
       ELSE LET wildcardDomain == IF Len(wildcardServers) > 0
                                  THEN matchSubDomain(wildcardServers, server)
                                  ELSE <<>>
            IN IF Len(wildcardDomain) > 0 /\ wildcardDomain \in DOMAIN auths
               THEN [auth |-> <<auths[wildcardDomain]>>, err |-> "nil"]
               ELSE [auth |-> <<>>, err |-> "nil"]

CredIdle ==
    /\ credPc = "idle"
    /\ podSpec = <<>>
    /\ imagePullSecrets = <<>>
    /\ refIdx = 0
    /\ secrets = <<>>
    /\ credRet = <<>>
    /\ credErr = "nil"
    /\ matched = <<>>

\* a call of ListImagePullSecretsByPodSpec with a nil or a non-nil spec
CredInit ==
    /\ credPc = "start"
    /\ podSpec \in {<<>>} \cup {<<ps>> : ps \in PodSpecs}
    /\ imagePullSecrets = <<>>
    /\ refIdx = 0
    /\ secrets = <<>>
    /\ credRet = <<>>
    /\ credErr = "nil"
    /\ matched = <<>>

\* spec == nil: an empty mapping
ListImagePullSecretsNilSpec ==
    /\ credPc = "start"
    /\ podSpec = <<>>
    /\ credRet' = << <<>> >>
    /\ credPc' = "done"
    /\ UNCHANGED <<podSpec, imagePullSecrets, refIdx, secrets, credErr, matched, notCred>>

\* the service account is read; an error other than not-found or forbidden
\* is returned, otherwise the account's references are put before the spec's
ListImagePullSecretsGetServiceAccount ==
    /\ credPc = "start"
    /\ podSpec # <<>>
    /\ LET spec == podSpec[1]
           sa == getServiceAccountByPodSpec(spec)
       IN IF sa.err # "nil" /\ ~IsNotFound(sa.err) /\ ~IsForbidden(sa.err)
          THEN /\ credErr' = "getting service account by name"
               /\ credPc' = "done"
               /\ UNCHANGED imagePullSecrets
          ELSE /\ imagePullSecrets' =
                     PrependServiceAccountSecrets(sa.ImagePullSecrets, spec.ImagePullSecrets)
               /\ credPc' = "refs"
               /\ UNCHANGED credErr
    /\ UNCHANGED <<podSpec, refIdx, secrets, credRet, matched, notCred>>

\* ListByLocalObjectReferences: one iteration of the loop over refs
ListByLocalObjectReferencesNext ==
    /\ credPc = "refs"
    /\ refIdx < Len(imagePullSecrets)
    /\ refIdx' = refIdx + 1
    /\ LET secretRef == imagePullSecrets[refIdx + 1]
           got == SecretGet(secretRef)
           step == IF secretRef = "" THEN "continue" ELSE SecretLookupStep(got.err)
       IN CASE step = "continue" -> UNCHANGED <<secrets, credErr, credPc>>
            [] step = "append" -> /\ secrets' = secrets \o got.secret
                                  /\ UNCHANGED <<credErr, credPc>>
            [] step = "return" -> /\ credErr' = "getting secret by name"
                                  /\ credPc' = "done"
                                  /\ UNCHANGED secrets
    /\ UNCHANGED <<podSpec, imagePullSecrets, credRet, matched, notCred>>

\* the loop is over: mapDockerRegistryServersToAuths(secrets, true)
ListImagePullSecretsMap ==
    /\ credPc = "refs"
    /\ refIdx = Len(imagePullSecrets)
    /\ LET r == mapDockerRegistryServersToAuths(secrets, TRUE)
       IN /\ credRet' = r.auths
          /\ credErr' = r.err
    /\ credPc' = "done"
    /\ UNCHANGED <<podSpec, imagePullSecrets, refIdx, secrets, matched, notCred>>

\* the caller resolves an image against the mapping it got
ResolveImage ==
    /\ credPc = "done"
    /\ credErr = "nil"
    /\ \E imageRef \in ImageRefs, wildcardServers \in Orders(GetWildcardServers(credRet[1])) :
          matched' = <<[imageRef |-> imageRef] @@
                       MapContainerNamesToDockerAuths(imageRef, credRet[1], wildcardServers)>>
    /\ credPc' = "resolved"
    /\ UNCHANGED <<podSpec, imagePullSecrets, refIdx, secrets, credRet, credErr, notCred>>

CredNext ==
    \/ ListImagePullSecretsNilSpec
    \/ ListImagePullSecretsGetServiceAccount
    \/ ListByLocalObjectReferencesNext
    \/ ListImagePullSecretsMap
    \/ ResolveImage

\* ------------------------------------------------------- the BOM assembler
k8sComponentNamespace == "kube-system"

\* the errors of an API call other than nil
ApiErrors == {"NotFound", "Forbidden", "Other"}

\* The cluster the assembler reads.  Pods, with the image ids
\* (registry/repository:version) of the Containers PodInfo builds for them
PodContainers ==
    [ p1 |-> <<"r/a:1">>,
      p2 |-> <<"r/b:2", "r/a:1">> ]

\* what a pod listing may return when it succeeds
PodLists == {<<>>, <<"p1">>, <<"p2", "p1">>}

\* nodes, with the names of each image of node.Status.Images
NodeImages ==
    [ n1 |-> << {"r/a:1", "r/a@sha256"}, {"r/c:3"} >>,
      n2 |-> << {"r/b:2"}, {"r/a:1"} >> ]

\* what the node listing may return when it succeeds
NodeLists == {<<>>, <<"n1">>, <<"n1", "n2">>}

\* the namespace arguments of CreateBomComponents
Namespaces == {"", k8sComponentNamespace, "ns"}

Label(namespace, labelSelector) ==
    [namespace |-> namespace, labelSelector |-> labelSelector]

\* CreateBomComponents: the map labels.  isOpenShift is true unless the
\* probe of the namespace "openshift-kube-apiserver" fails with not-found
ControlPlaneLabels(namespace, probeErr) ==
    IF namespace # "" /\ ~IsNotFound(probeErr)
    THEN { Label("openshift-kube-apiserver", "apiserver"),
           Label("openshift-kube-controller-manager", "kube-controller-manager"),
           Label("openshift-kube-scheduler", "scheduler"),
           Label("openshift-etcd", "etcd") }
    ELSE { Label(namespace, "component") }

\* CreateBomComponents: the map addonLabels (an entry set for the key
\* "kube-system" replaces the one the map was made with)
AddonLabels(namespace) ==
    IF namespace = "" \/ namespace = k8sComponentNamespace
    THEN { l \in {Label(namespace, "app.kubernetes.io/component=controller")} :
              l.namespace # k8sComponentNamespace }
         \cup { Label(k8sComponentNamespace, "k8s-app") }
    ELSE { Label(namespace, "app.kubernetes.io/component=controller") }

\* the component PodInfo returns for a pod; PodInfo returns no error
ComponentOf(pod, labelSelector) ==
    [Name |-> pod, labelSelector |-> labelSelector, Containers |-> PodContainers[pod]]

\* collectComponents: the loop over pods.Items
ComponentsOf(pods, labelSelector) ==
    [i \in 1..Len(pods) |-> ComponentOf(pods[i], labelSelector)]

\* collectComponents, the pod listing having failed: the entry is passed
\* over, whatever the error
PodListFailure(err) == "continue"

\* mutant: a forbidden node listing is returned as an error
CollectNodesFailureOnlyNotFound(err) ==
    IF IsNotFound(err) THEN "empty" ELSE "return"

\* CollectNodes, the node listing having failed
CollectNodesFailure(err) ==
    IF IsNotFound(err) \/ IsForbidden(err) THEN "empty" ELSE "return"

\* CollectNodes: the ids of the containers of a component that are among the
\* names of an image
RECURSIVE ContainersIn(_, _)
ContainersIn(ids, names) ==
    IF ids = <<>> THEN <<>>
    ELSE (IF Head(ids) \in names THEN <<Head(ids)>> ELSE <<>>)
         \o ContainersIn(Tail(ids), names)

\* CollectNodes: the loop over components, for one image
RECURSIVE ComponentsIn(_, _)
ComponentsIn(comps, names) ==
    IF comps = <<>> THEN <<>>
    ELSE ContainersIn(Head(comps).Containers, names) \o ComponentsIn(Tail(comps), names)

\* CollectNodes: the loop over node.Status.Images
RECURSIVE ImagesOn(_, _)
ImagesOn(images, comps) ==
    IF images = <<>> THEN <<>>
    ELSE ComponentsIn(comps, Head(images)) \o ImagesOn(Tail(images), comps)

\* CollectNodes: the loop over nodes.Items
NodesInfoOf(nodes, comps) ==
    [i \in 1..Len(nodes) |->
        [NodeName |-> nodes[i], Images |-> ImagesOn(NodeImages[nodes[i]], comps)]]

BomIdle ==
    /\ bomPc = "idle"
    /\ bomCall = [method |-> "none", namespace |-> ""]
    /\ labelsLeft = {}
    /\ components = <<>>
    /\ bomComponents = <<>>
    /\ nodesInfo = <<>>
    /\ podListErrs = {}
    /\ nodeListErr = "nil"
    /\ bomRet = <<>>
    /\ bomErr = "nil"

\* a call of CreateClusterBom, or of CreateBomComponents with a namespace
BomInit ==
    /\ bomPc = "start"
    /\ bomCall \in {[method |-> "CreateClusterBom", namespace |-> ""]}
                   \cup {[method |-> "CreateBomComponents", namespace |-> n] : n \in Namespaces}
    /\ labelsLeft = {}
    /\ components = <<>>
    /\ bomComponents = <<>>
    /\ nodesInfo = <<>>
    /\ podListErrs = {}
    /\ nodeListErr = "nil"
    /\ bomRet = <<>>
    /\ bomErr = "nil"

\* CreateBomComponents: labels is built and collectComponents(labels) begins
CreateBomComponentsLabels ==
    /\ bomPc = "start"
    /\ \E probeErr \in ApiErrors \cup {"nil"} :
          labelsLeft' = ControlPlaneLabels(bomCall.namespace, probeErr)
    /\ components' = <<>>
    /\ bomPc' = "components"
    /\ UNCHANGED <<bomCall, bomComponents, nodesInfo, podListErrs, nodeListErr,
                   bomRet, bomErr, notBom>>

\* collectComponents: an iteration of the loop over labels whose pod listing
\* fails
collectComponentsListFails ==
    /\ bomPc \in {"components", "addons"}
    /\ \E l \in labelsLeft, err \in ApiErrors :
          /\ PodListFailure(err) = "continue"
          /\ labelsLeft' = labelsLeft \ {l}
          /\ podListErrs' = podListErrs \cup {err}
    /\ UNCHANGED <<bomPc, bomCall, components, bomComponents, nodesInfo, nodeListErr,
                   bomRet, bomErr, notBom>>

\* collectComponents: an iteration of the loop over labels whose pod listing
\* succeeds
collectComponentsList ==
    /\ bomPc \in {"components", "addons"}
    /\ \E l \in labelsLeft, pods \in PodLists :
          /\ labelsLeft' = labelsLeft \ {l}
          /\ components' = components \o ComponentsOf(pods, l.labelSelector)
    /\ UNCHANGED <<bomPc, bomCall, bomComponents, nodesInfo, podListErrs, nodeListErr,
                   bomRet, bomErr, notBom>>

\* CreateBomComponents: collectComponents(labels) returned (err is nil);
\* addonLabels is built and collectComponents(addonLabels) begins
CreateBomComponentsAddons ==
    /\ bomPc = "components"
    /\ labelsLeft = {}
    /\ bomComponents' = components
    /\ labelsLeft' = AddonLabels(bomCall.namespace)
    /\ components' = <<>>
    /\ bomPc' = "addons"
    /\ UNCHANGED <<bomCall, nodesInfo, podListErrs, nodeListErr, bomRet, bomErr, notBom>>

\* CreateBomComponents returns components and addons: to its caller, or to
\* CreateClusterBom, which goes on to CollectNodes
CreateBomComponentsReturn ==
    /\ bomPc = "addons"
    /\ labelsLeft = {}
    /\ bomComponents' = bomComponents \o components
    /\ IF bomCall.method = "CreateBomComponents"
       THEN /\ bomRet' = <<bomComponents'>>
            /\ bomPc' = "done"
       ELSE /\ bomPc' = "nodes"
            /\ UNCHANGED bomRet
    /\ UNCHANGED <<bomCall, labelsLeft, components, nodesInfo, podListErrs,
                   nodeListErr, bomErr, notBom>>

\* CollectNodes, the node listing having succeeded
CollectNodes ==
    /\ bomPc = "nodes"
    /\ \E nodes \in NodeLists : nodesInfo' = NodesInfoOf(nodes, bomComponents)
    /\ bomPc' = "info"
    /\ UNCHANGED <<bomCall, labelsLeft, components, bomComponents, podListErrs,
                   nodeListErr, bomRet, bomErr, notBom>>

\* CollectNodes, the node listing having failed: an empty list, or the error,
\* which CreateClusterBom returns
CollectNodesListFails ==
    /\ bomPc = "nodes"
    /\ \E err \in ApiErrors :
          /\ nodeListErr' = err
          /\ IF CollectNodesFailure(err) = "empty"
             THEN /\ nodesInfo' = <<>>
                  /\ bomPc' = "info"
                  /\ UNCHANGED bomErr
             ELSE /\ bomErr' = "list nodes"
                  /\ bomPc' = "done"
                  /\ UNCHANGED nodesInfo
    /\ UNCHANGED <<bomCall, labelsLeft, components, bomComponents, podListErrs,
                   bomRet, notBom>>

\* getClusterBomInfo: ClusterNameVersion succeeds and the result is built
getClusterBomInfo ==
    /\ bomPc = "info"
    /\ bomRet' = <<[Components |-> bomComponents, NodesInfo |-> nodesInfo,
                    ID |-> "k8s.io/kubernetes", Type |-> "Cluster"]>>
    /\ bomPc' = "done"
    /\ UNCHANGED <<bomCall, labelsLeft, components, bomComponents, nodesInfo,
                   podListErrs, nodeListErr, bomErr, notBom>>

\* getClusterBomInfo: ClusterNameVersion fails (the client configuration or
\* the server version cannot be read)
getClusterBomInfoFails ==
    /\ bomPc = "info"
    /\ bomErr' = "cluster name and version"
    /\ bomPc' = "done"
    /\ UNCHANGED <<bomCall, labelsLeft, components, bomComponents, nodesInfo,
                   podListErrs, nodeListErr, bomRet, notBom>>

BomNext ==
    \/ CreateBomComponentsLabels
    \/ collectComponentsListFails
    \/ collectComponentsList
    \/ CreateBomComponentsAddons
    \/ CreateBomComponentsReturn
    \/ CollectNodes
    \/ CollectNodesListFails
    \/ getClusterBomInfo
    \/ getClusterBomInfoFails

\* ------------------------------------------- the resource-to-artifact extractor
KindPod == "Pod"
KindCronJob == "CronJob"
KindDeployment == "Deployment"
\* a kind the library does not know
KindWidget == "Widget"
Kinds == {KindPod, KindCronJob, KindDeployment, KindWidget}

\* the places of a pod spec in a resource
PodSpecPaths ==
    { <<"spec">>,
      <<"spec", "template", "spec">>,
      <<"spec", "jobTemplate", "spec", "template", "spec">> }

\* An entry of a container list: a map whose "image" is a string, is absent
\* or is not a string
Entry(imageKind, image) == [imageKind |-> imageKind, image |-> image]
ImageEntries == {Entry("string", "a"), Entry("string", "b")}

\* The value under a key such as "containers": a slice of entries, or a
\* value that is no slice.  A key may also be absent from the object
Slice(items) == [isSlice |-> TRUE, items |-> items]
FieldValues ==
    {Slice(l) : l \in UNION {[1..n -> ImageEntries] : n \in 0..MaxContainers}}
    \cup {Slice(<<Entry("absent", ""), Entry("string", "b")>>)}
    \cup {Slice(<<Entry("string", "a"), Entry("number", "")>>)}
    \cup {[isSlice |-> FALSE, items |-> <<>>]}

ListKeys == {"containers", "initContainers", "ephemeralContainers"}

\* resource.Object as the mapping from the key paths that lead to a value
\* to that value: a pod spec at one place, holding some of the three lists
ObjectsAt(path) ==
    UNION { [{path \o <<k>> : k \in present} -> FieldValues] : present \in SUBSET ListKeys }

\* metadata.name: a string, absent, or a value that is no string
NameKinds == {"string", "absent", "number"}

Resources ==
    UNION { [kind : Kinds, nameKind : NameKinds, Object : ObjectsAt(path)] :
              path \in PodSpecPaths }

\* unstructured.NestedString(resource.Object, "metadata", "name")
NestedStringName(res) ==
    IF res.nameKind = "absent" THEN [val |-> "", found |-> FALSE, err |-> "nil"]
    ELSE IF res.nameKind # "string" THEN [val |-> "", found |-> FALSE, err |-> "not a string"]
    ELSE [val |-> "web", found |-> TRUE, err |-> "nil"]

\* unstructured.NestedSlice(obj, keys...)
NestedSlice(obj, keys) ==
    IF keys \notin DOMAIN obj THEN [val |-> <<>>, found |-> FALSE, err |-> "nil"]
    ELSE IF ~obj[keys].isSlice THEN [val |-> <<>>, found |-> FALSE, err |-> "not a slice"]
    ELSE [val |-> obj[keys].items, found |-> TRUE, err |-> "nil"]

\* unstructured.NestedString(container, "image")
NestedStringImage(container) ==
    IF container.imageKind = "absent" THEN [val |-> "", found |-> FALSE, err |-> "nil"]
    ELSE IF container.imageKind # "string" THEN [val |-> "", found |-> FALSE, err |-> "not a string"]
    ELSE [val |-> container.image, found |-> TRUE, err |-> "nil"]

\* extractImages: the loop over containers
RECURSIVE ExtractLoop(_, _)
ExtractLoop(containers, images) ==
    IF containers = <<>> THEN [images |-> images, err |-> "nil"]
    ELSE LET got == NestedStringImage(Head(containers))
         IN IF got.err # "nil" THEN [images |-> <<>>, err |-> got.err]
            ELSE ExtractLoop(Tail(containers),
                             IF got.found THEN Append(images, got.val) ELSE images)

extractImages(res, keys) ==
    LET got == NestedSlice(res.Object, keys)
    IN IF got.err # "nil" THEN [images |-> <<>>, err |-> got.err]
       ELSE IF ~got.found THEN [images |-> <<>>, err |-> "nil"]
       ELSE ExtractLoop(got.val, <<>>)

\* mutant: a CronJob is read like every other workload
NestedKeysNoCronJob(kind) ==
    IF kind = KindPod THEN <<"spec">> ELSE <<"spec", "template", "spec">>

\* FromResource: the switch on resource.GetKind()
NestedKeys(kind) ==
    IF kind = KindPod THEN <<"spec">>
    ELSE IF kind = KindCronJob THEN <<"spec", "jobTemplate", "spec", "template", "spec">>
    ELSE <<"spec", "template", "spec">>

\* mutant: the init containers are read before the ephemeral containers
FromResourceInitFirst(res) ==
    LET nestedKeys == NestedKeys(res.kind)
        containersImages == extractImages(res, Append(nestedKeys, "containers"))
        initContainersImages == extractImages(res, Append(nestedKeys, "initContainers"))
        ephemeralContainersImages == extractImages(res, Append(nestedKeys, "ephemeralContainers"))
    IN IF containersImages.err # "nil" THEN [artifact |-> <<>>, err |-> containersImages.err]
       ELSE IF initContainersImages.err # "nil"
       THEN [artifact |-> <<>>, err |-> initContainersImages.err]
       ELSE IF ephemeralContainersImages.err # "nil"
       THEN [artifact |-> <<>>, err |-> ephemeralContainersImages.err]
       ELSE IF NestedStringName(res).err # "nil"
       THEN [artifact |-> <<>>, err |-> NestedStringName(res).err]
       ELSE [artifact |-> <<[Kind |-> res.kind,
                             Name |-> NestedStringName(res).val,
                             Images |-> containersImages.images
                                        \o initContainersImages.images
                                        \o ephemeralContainersImages.images]>>,
             err |-> "nil"]

\* FromResource (Namespace and RawResource are copied from the resource)
FromResource(res) ==
    LET nestedKeys == NestedKeys(res.kind)
        containersImages == extractImages(res, Append(nestedKeys, "containers"))
        ephemeralContainersImages == extractImages(res, Append(nestedKeys, "ephemeralContainers"))
        initContainersImages == extractImages(res, Append(nestedKeys, "initContainers"))
    IN IF containersImages.err # "nil" THEN [artifact |-> <<>>, err |-> containersImages.err]
       ELSE IF ephemeralContainersImages.err # "nil"
       THEN [artifact |-> <<>>, err |-> ephemeralContainersImages.err]
       ELSE IF initContainersImages.err # "nil"
       THEN [artifact |-> <<>>, err |-> initContainersImages.err]
       ELSE IF NestedStringName(res).err # "nil"
       THEN [artifact |-> <<>>, err |-> NestedStringName(res).err]
       ELSE [artifact |-> <<[Kind |-> res.kind,
                             Name |-> NestedStringName(res).val,
                             Images |-> containersImages.images
                                        \o ephemeralContainersImages.images
                                        \o initContainersImages.images]>>,
             err |-> "nil"]

ArtIdle ==
    /\ artPc = "idle"
    /\ resource = [kind |-> KindPod, nameKind |-> "absent", Object |-> <<>>]
    /\ artRet = [artifact |-> <<>>, err |-> "nil"]

\* a call of FromResource
ArtInit ==
    /\ artPc = "start"
    /\ resource \in Resources
    /\ artRet = [artifact |-> <<>>, err |-> "nil"]

FromResourceCall ==
    /\ artPc = "start"
    /\ artRet' = FromResource(resource)
    /\ artPc' = "done"
    /\ UNCHANGED <<resource, notArt>>

ArtNext == FromResourceCall

\* ------------------------------------------------ the image reference parser
\* digest.Canonical ("sha256") with the ":" behind it
Sha256Prefix == <<"s", "h", "a", "2", "5", "6", ":">>

\* digest.Canonical.Size() * 2: the length of a SHA-256 digest in hex
DigestHexLength == 64

\* utils.ParseReference: a name "registry/repository:tag"; without a
\* registry the default registry and its "library/" namespace are meant,
\* without a tag "latest"; an empty name or one with a space does not parse
ParseReference(imageName) ==
    IF imageName = <<>> \/ Contains(imageName, <<" ">>)
    THEN [err |-> "parse error", Registry |-> <<>>, Repository |-> <<>>, Identifier |-> <<>>]
    ELSE LET slash == Contains(imageName, <<"/">>)
             registry == IF slash THEN SubSeq(imageName, 1, Index(imageName, <<"/">>))
                         ELSE <<"i", "n", "d", "e", "x", ".", "d", "o", "c", "k", "e", "r", ".", "i", "o">>
             rest == IF slash
                     THEN SubSeq(imageName, Index(imageName, <<"/">>) + 2, Len(imageName))
                     ELSE <<"l", "i", "b", "r", "a", "r", "y", "/">> \o imageName
             colon == Contains(rest, <<":">>)
         IN [err |-> "nil",
             Registry |-> registry,
             Repository |-> IF colon THEN SubSeq(rest, 1, Index(rest, <<":">>)) ELSE rest,
             Identifier |-> IF colon
                            THEN SubSeq(rest, Index(rest, <<":">>) + 2, Len(rest))
                            ELSE <<"l", "a", "t", "e", "s", "t">>]

extractDigest(imageId) ==
    LET id == IF Contains(imageId, <<"@">>) THEN Split(imageId, "@")[2] ELSE imageId
    IN IF HasPrefix(id, Sha256Prefix) THEN SubSeq(id, Len(Sha256Prefix) + 1, Len(id)) ELSE id

\* GetContainer; containerimage.DefaultRegistry is "index.docker.io"
GetContainer(imageName, imageId) ==
    LET name == IF Contains(imageName, <<"@">>) THEN Split(imageName, "@")[1] ELSE imageName
        imageRef == ParseReference(name)
        imageDigest == extractDigest(imageId)
        library == <<"l", "i", "b", "r", "a", "r", "y", "/">>
        repoName == IF imageRef.Registry =
                          <<"i", "n", "d", "e", "x", ".", "d", "o", "c", "k", "e", "r", ".", "i", "o">>
                       /\ HasPrefix(imageRef.Repository, library)
                    THEN SubSeq(imageRef.Repository, Len(library) + 1, Len(imageRef.Repository))
                    ELSE imageRef.Repository
        version == imageRef.Identifier
    IN IF imageRef.err # "nil" THEN [container |-> <<>>, err |-> "unable to parse image name"]
       ELSE IF Len(imageDigest) # DigestHexLength
       THEN [container |-> <<>>, err |-> "unable to parse digest"]
       ELSE [container |-> <<[Repository |-> repoName,
                              Registry |-> imageRef.Registry,
                              ID |-> repoName \o <<":">> \o version,
                              Digest |-> imageDigest,
                              Version |-> version]>>,
             err |-> "nil"]

\* digests: of 64 hex characters, and the same without the algorithm
HexA == [i \in 1..DigestHexLength |-> "a"]
ShaA == Sha256Prefix \o HexA
Sha0 == Sha256Prefix \o [i \in 1..DigestHexLength |-> "0"]

\* image names
Image_rb == <<"r", "/", "b">>

ImageNames ==
    { <<"r", "/", "a", ":", "1">>, <<"a">>, Image_rb \o <<"@">> \o ShaA, <<>>, <<"a", " ", "b">> }

\* image ids: a digest, a reference with a digest, a bare hex string, a
\* digest that is too short, too long, or has characters that are no hex
\* digits, a digest of another algorithm, an id with two "@", a container
\* runtime's id, and none
ImageIds ==
    { ShaA,
      Image_rb \o <<"@">> \o Sha0,
      HexA,
      Sha256Prefix \o [i \in 1..(DigestHexLength - 1) |-> "a"],
      Sha256Prefix \o [i \in 1..(DigestHexLength + 1) |-> "a"],
      Sha256Prefix \o [i \in 1..(DigestHexLength) |-> "z"],
      <<"s", "h", "a", "5", "1", "2", ":">> \o [i \in 1..(DigestHexLength - 7) |-> "a"],
      Image_rb \o <<"@">> \o ShaA \o <<"@", "x">>,
      <<"d", ":", "/", "/">> \o ShaA,
      <<>> }

\* ------------------------------------------------------ the component namer
\* The tables; names are strings of characters, the types are not inspected
UpstreamOrgName ==
    \* k8s.io: controller-manager,kubelet,apiserver,kubectl,kubernetes,kube-scheduler,kube-proxy,cloud-provider,ingress-nginx
       (<<"k", "8", "s", ".", "i", "o">> :> <<"c", "o", "n", "t", "r", "o", "l", "l", "e", "r", "-", "m", "a", "n", "a", "g", "e", "r", ",", "k", "u", "b", "e", "l", "e", "t", ",", "a", "p", "i", "s", "e", "r", "v", "e", "r", ",", "k", "u", "b", "e", "c", "t", "l", ",", "k", "u", "b", "e", "r", "n", "e", "t", "e", "s", ",", "k", "u", "b", "e", "-", "s", "c", "h", "e", "d", "u", "l", "e", "r", ",", "k", "u", "b", "e", "-", "p", "r", "o", "x", "y", ",", "c", "l", "o", "u", "d", "-", "p", "r", "o", "v", "i", "d", "e", "r", ",", "i", "n", "g", "r", "e", "s", "s", "-", "n", "g", "i", "n", "x">>)
    \* sigs.k8s.io: secrets-store-csi-driver
    @@ (<<"s", "i", "g", "s", ".", "k", "8", "s", ".", "i", "o">> :> <<"s", "e", "c", "r", "e", "t", "s", "-", "s", "t", "o", "r", "e", "-", "c", "s", "i", "-", "d", "r", "i", "v", "e", "r">>)
    \* go.etcd.io: etcd/v3
    @@ (<<"g", "o", ".", "e", "t", "c", "d", ".", "i", "o">> :> <<"e", "t", "c", "d", "/", "v", "3">>)

UpstreamRepoName ==
    \* kube-controller-manager: controller-manager
       (<<"k", "u", "b", "e", "-", "c", "o", "n", "t", "r", "o", "l", "l", "e", "r", "-", "m", "a", "n", "a", "g", "e", "r">> :> <<"c", "o", "n", "t", "r", "o", "l", "l", "e", "r", "-", "m", "a", "n", "a", "g", "e", "r">>)
    \* kubelet: kubelet
    @@ (<<"k", "u", "b", "e", "l", "e", "t">> :> <<"k", "u", "b", "e", "l", "e", "t">>)
    \* kube-apiserver: apiserver
    @@ (<<"k", "u", "b", "e", "-", "a", "p", "i", "s", "e", "r", "v", "e", "r">> :> <<"a", "p", "i", "s", "e", "r", "v", "e", "r">>)
    \* kubectl: kubectl
    @@ (<<"k", "u", "b", "e", "c", "t", "l">> :> <<"k", "u", "b", "e", "c", "t", "l">>)
    \* kubernetes: kubernetes
    @@ (<<"k", "u", "b", "e", "r", "n", "e", "t", "e", "s">> :> <<"k", "u", "b", "e", "r", "n", "e", "t", "e", "s">>)
    \* kube-scheduler: kube-scheduler
    @@ (<<"k", "u", "b", "e", "-", "s", "c", "h", "e", "d", "u", "l", "e", "r">> :> <<"k", "u", "b", "e", "-", "s", "c", "h", "e", "d", "u", "l", "e", "r">>)
    \* kube-proxy: kube-proxy
    @@ (<<"k", "u", "b", "e", "-", "p", "r", "o", "x", "y">> :> <<"k", "u", "b", "e", "-", "p", "r", "o", "x", "y">>)
    \* api server: apiserver
    @@ (<<"a", "p", "i", " ", "s", "e", "r", "v", "e", "r">> :> <<"a", "p", "i", "s", "e", "r", "v", "e", "r">>)
    \* etcd: etcd/v3
    @@ (<<"e", "t", "c", "d">> :> <<"e", "t", "c", "d", "/", "v", "3">>)
    \* cloud-controller-manager: cloud-provider
    @@ (<<"c", "l", "o", "u", "d", "-", "c", "o", "n", "t", "r", "o", "l", "l", "e", "r", "-", "m", "a", "n", "a", "g", "e", "r">> :> <<"c", "l", "o", "u", "d", "-", "p", "r", "o", "v", "i", "d", "e", "r">>)
    \* secrets-store-csi-driver: secrets-store-csi-driver
    @@ (<<"s", "e", "c", "r", "e", "t", "s", "-", "s", "t", "o", "r", "e", "-", "c", "s", "i", "-", "d", "r", "i", "v", "e", "r">> :> <<"s", "e", "c", "r", "e", "t", "s", "-", "s", "t", "o", "r", "e", "-", "c", "s", "i", "-", "d", "r", "i", "v", "e", "r">>)

CoreComponentPropertyType ==
    \* controller-manager: controlPlane
       (<<"c", "o", "n", "t", "r", "o", "l", "l", "e", "r", "-", "m", "a", "n", "a", "g", "e", "r">> :> "controlPlane")
    \* apiserver: controlPlane
    @@ (<<"a", "p", "i", "s", "e", "r", "v", "e", "r">> :> "controlPlane")
    \* kube-scheduler: controlPlane
    @@ (<<"k", "u", "b", "e", "-", "s", "c", "h", "e", "d", "u", "l", "e", "r">> :> "controlPlane")
    \* etcd/v3: controlPlane
    @@ (<<"e", "t", "c", "d", "/", "v", "3">> :> "controlPlane")
    \* cloud-provider: controlPlane
    @@ (<<"c", "l", "o", "u", "d", "-", "p", "r", "o", "v", "i", "d", "e", "r">> :> "controlPlane")
    \* kube-proxy: node
    @@ (<<"k", "u", "b", "e", "-", "p", "r", "o", "x", "y">> :> "node")

\* upstreamOrgByName: a key whose list, split at ",", holds the lower-cased
\* component ("" without one; a name is in the list of one key at most)
upstreamOrgByName(component) ==
    LET lists(key) ==
            \E i \in 1..Len(Split(UpstreamOrgName[key], ",")) :
                Trim(Split(UpstreamOrgName[key], ",")[i], " ") = ToLower(component)
    IN IF \E key \in DOMAIN UpstreamOrgName : lists(key)
       THEN CHOOSE key \in DOMAIN UpstreamOrgName : lists(key)
       ELSE <<>>

upstreamRepoByName(component) ==
    IF component \in DOMAIN UpstreamRepoName THEN UpstreamRepoName[component] ELSE component

\* mutant: the version is cut at the first "k3s" or "rke2", not at a marker
k8sVersionsCutAtName(version) ==
    IF Contains(version, <<"r", "k", "e", "2">>)
    THEN SubSeq(version, 1, Index(version, <<"r", "k", "e", "2">>))
    ELSE IF Contains(version, <<"k", "3", "s">>)
    THEN SubSeq(version, 1, Index(version, <<"k", "3", "s">>))
    ELSE version

k8sVersions(version) ==
    IF Contains(version, <<"+", "r", "k", "e", "2">>)
    THEN SubSeq(version, 1, Index(version, <<"+", "r", "k", "e", "2">>))
    ELSE IF Contains(version, <<"-", "r", "k", "e", "2">>)
    THEN SubSeq(version, 1, Index(version, <<"-", "r", "k", "e", "2">>))
    ELSE IF Contains(version, <<"-", "k", "3", "s">>)
    THEN SubSeq(version, 1, Index(version, <<"-", "k", "3", "s">>))
    ELSE version

\* trimString: strings.Trim for each of trimValues (of one character each),
\* then strings.TrimSpace
RECURSIVE trimString(_, _)
trimString(version, trimValues) ==
    IF trimValues = <<>> THEN Trim(version, " ")
    ELSE trimString(Trim(version, Head(trimValues)), Tail(trimValues))

\* ------------------------------------------------- PodInfo and NodeInfo
\* getImageID: the digest of an image or image id, "" when it has none
getImageID(image) ==
    IF HasPrefix(image, Sha256Prefix) THEN image
    ELSE LET imageParts == Split(image, "@")
         IN IF Len(imageParts) > 1 /\ HasPrefix(imageParts[2], Sha256Prefix)
            THEN imageParts[2]
            ELSE <<>>

\* mutant: the statuses are taken by position whenever there are as many as
\* containers
getImageIDsByPosition(p) ==
    IF Len(p.Containers) = Len(p.ContainerStatuses)
    THEN [i \in 1..Len(p.Containers) |-> getImageID(p.ContainerStatuses[i].ImageID)]
    ELSE [i \in 1..Len(p.Containers) |-> getImageID(p.Containers[i])]

getImageIDsByStatuses(p) ==
    IF Len(p.Containers) = 1 /\ Len(p.ContainerStatuses) = 1
    THEN <<getImageID(p.ContainerStatuses[1].ImageID)>>
    ELSE LET \* the entries of statusMap[image]: the last one is kept
             entries(image) == {j \in 1..Len(p.ContainerStatuses) :
                                   p.ContainerStatuses[j].Image = image}
             last(image) == CHOOSE j \in entries(image) : \A k \in entries(image) : j >= k
         IN [i \in 1..Len(p.Containers) |->
                IF entries(p.Containers[i]) # {}
                THEN getImageID(p.ContainerStatuses[last(p.Containers[i])].ImageID)
                ELSE getImageID(p.Containers[i])]

\* PodInfo: the loop over pod.Spec.Containers
RECURSIVE PodContainersOf(_, _, _)
PodContainersOf(images, ids, i) ==
    IF i > Len(images) THEN <<>>
    ELSE GetContainer(images[i], ids[i]).container \o PodContainersOf(images, ids, i + 1)

findComponentVersion(containers, name) ==
    IF \E i \in 1..Len(containers) :
          \/ Contains(containers[i].Version, <<"r", "k", "e", "2">>)
          \/ Contains(containers[i].Version, <<"k", "3", "s">>)
          \/ Contains(containers[i].ID, name)
    THEN LET c == containers[CHOOSE i \in 1..Len(containers) :
                    /\ \/ Contains(containers[i].Version, <<"r", "k", "e", "2">>)
                       \/ Contains(containers[i].Version, <<"k", "3", "s">>)
                       \/ Contains(containers[i].ID, name)
                    /\ \A j \in 1..(i - 1) :
                          /\ ~Contains(containers[j].Version, <<"r", "k", "e", "2">>)
                          /\ ~Contains(containers[j].Version, <<"k", "3", "s">>)
                          /\ ~Contains(containers[j].ID, name)]
         IN IF Contains(c.Version, <<"r", "k", "e", "2">>) \/ Contains(c.Version, <<"k", "3", "s">>)
            THEN k8sVersions(c.Version)
            ELSE c.Version
    ELSE <<>>

\* mutant: the organization is not put in front
PodNameNoOrg(name) == name

\* PodInfo: the name with its organization
PodName(name) ==
    IF Len(upstreamOrgByName(name)) > 0
    THEN upstreamOrgByName(name) \o <<"/">> \o name
    ELSE name

\* PodInfo; labels[key] of a Go map is "" for a key that is not there, and
\* props["Type"] is "" for an unset type
PodInfo(p, selector) ==
    LET containers == PodContainersOf(p.Containers, getImageIDsByStatuses(p), 1)
        labels(key) == IF key \in DOMAIN p.Labels THEN p.Labels[key] ELSE <<>>
        nameLabel == labels("app.kubernetes.io/name")
        versionLabel == labels("app.kubernetes.io/version")
        name == IF nameLabel = <<>> THEN upstreamRepoByName(labels(selector)) ELSE nameLabel
    IN [Namespace |-> p.Namespace,
        Name |-> PodName(name),
        Version |-> IF versionLabel = <<>>
                    THEN trimString(findComponentVersion(containers, labels(selector)),
                                    <<"v", "V">>)
                    ELSE versionLabel,
        Properties |->
            [Name |-> p.Name,
             Type |-> IF nameLabel = <<>> /\ name \in DOMAIN CoreComponentPropertyType
                      THEN CoreComponentPropertyType[name]
                      ELSE labels("app.kubernetes.io/component")],
        Containers |-> containers]

\* NodeInfo (the kubelet version; the other fields are copied from the node)
NodeInfo(n) ==
    [NodeName |-> n.Name,
     KubeletVersion |-> trimString(k8sVersions(n.KubeletVersion), <<"v", "V">>),
     NodeRole |-> IF n.ControlPlane \/ n.Master THEN "master" ELSE "worker"]

\* The inputs.  Declared images of a pod: with a tag, with a tag of a
\* distribution, with a digest
Image_rav1 == <<"r", "/", "a", ":", "v", "1">>
Image_re_k3s == <<"r", "/", "e", ":", "v", "2", "-", "k", "3", "s", "1">>
Image_rb_digest == Image_rb \o <<"@">> \o ShaA

Status(image, imageId) == [Image |-> image, ImageID |-> imageId]

\* status entries: two with a digest, one with an id that has no digest
Status_rav1 == Status(Image_rav1, Image_rb \o <<"@">> \o Sha0)
Status_re_k3s == Status(Image_re_k3s, ShaA)
Status_rb_nodigest == Status(Image_rb_digest, <<"d", ":", "/", "/">> \o HexA)

\* the statuses a pod may report
StatusLists ==
    { <<>>,
      <<Status_rav1>>,
      <<Status_rb_nodigest>>,
      <<Status_re_k3s, Status_rav1>>,
      <<Status_rav1, Status_rb_nodigest>>,
      <<Status_rb_nodigest, Status_re_k3s, Status_rav1>> }

\* a label, when it has a value
Labelled(key, value) == IF value = <<>> THEN <<>> ELSE (key :> value)

\* the labels of a pod: a map that holds the labels with a value
Labels(n, v, c, x) ==
    Labelled("app.kubernetes.io/name", n) @@ Labelled("app.kubernetes.io/version", v)
    @@ Labelled("app.kubernetes.io/component", c) @@ Labelled("component", x)

PodLabels ==
    { Labels(n, v, c, x) :
        n \in {<<>>, <<"e", "t", "c", "d">>, <<"a", "p", "i", "s", "e", "r", "v", "e", "r">>},
        v \in {<<>>, <<"3", ".", "5">>},
        c \in {<<>>, <<"c", "t", "l">>},
        x \in {<<>>, <<"a", "p", "i", " ", "s", "e", "r", "v", "e", "r">>,
                <<"e", "t", "c", "d">>, <<"K", "u", "b", "e", "l", "e", "t">>, <<"b">>} }

Pod(labels, containers, statuses) ==
    [Name |-> "pod", Namespace |-> "ns", Labels |-> labels,
     Containers |-> containers, ContainerStatuses |-> statuses]

\* The pods: every set of labels on a pod without containers, on a pod of
\* one container and on a pod of two; and every list of containers with
\* every list of statuses under four sets of labels
Pods ==
    { Pod(l, cs[1], cs[2]) :
        l \in PodLabels,
        cs \in { << <<>>, <<>> >>,
                 << <<Image_re_k3s>>, <<Status_rav1>> >>,
                 << <<Image_rav1, Image_rb_digest>>, <<Status_rav1>> >> } }
    \cup
    { Pod(l, cs, ss) :
        l \in { Labels(<<>>, <<>>, <<>>, <<>>),
                Labels(<<>>, <<>>, <<>>, <<"b">>),
                Labels(<<>>, <<>>, <<>>, <<"e", "t", "c", "d">>),
                Labels(<<"e", "t", "c", "d">>, <<"3", ".", "5">>, <<>>, <<"b">>) },
        cs \in UNION {[1..n -> {Image_rav1, Image_re_k3s, Image_rb_digest}] : n \in 0..MaxPodContainers},
        ss \in StatusLists }

\* kubelet versions a node may report
KubeletVersions ==
    { <<"v", "1", ".", "2", "7", ".", "3", "+", "r", "k", "e", "2", "r", "1">>,
      <<"v", "1", ".", "2", "-", "r", "k", "e", "2", "r", "1">>,
      <<"v", "1", ".", "2", "-", "k", "3", "s", "1">>,
      <<"v", "1", ".", "2">>,
      <<"V", "1", ".", "2">>,
      <<"1", ".", "2">>,
      <<"v", "1", ".", "2", "-", "r", "e", "v">>,
      <<"v", "V", "1", ".", "2">>,
      <<" ", "v", "1", ".", "2">>,
      <<"r", "k", "e", "2">>,
      <<"v">> }

Nodes ==
    [ Name : {"n1"}, KubeletVersion : KubeletVersions,
      ControlPlane : BOOLEAN, Master : BOOLEAN ]

InfoIdle ==
    /\ infoPc = "idle"
    /\ imageArgs = <<>>
    /\ podArg = <<>>
    /\ selectorArg = ""
    /\ nodeArg = <<>>
    /\ podIds = <<>>
    /\ containerRet = <<>>
    /\ componentRet = <<>>
    /\ nodeRet = <<>>

\* a call of GetContainer, of PodInfo or of NodeInfo
InfoInit ==
    /\ infoPc = "start"
    /\ \/ /\ imageArgs \in {<<[imageName |-> n, imageId |-> i]>> : n \in ImageNames, i \in ImageIds}
          /\ podArg = <<>>
          /\ selectorArg = ""
          /\ nodeArg = <<>>
       \/ /\ imageArgs = <<>>
          /\ podArg \in {<<p>> : p \in Pods}
          \* the label selectors of collectComponents: a key, or key=value
          /\ selectorArg \in {"component", "app.kubernetes.io/component=controller"}
          /\ nodeArg = <<>>
       \/ /\ imageArgs = <<>>
          /\ podArg = <<>>
          /\ selectorArg = ""
          /\ nodeArg \in {<<n>> : n \in Nodes}
    /\ podIds = <<>>
    /\ containerRet = <<>>
    /\ componentRet = <<>>
    /\ nodeRet = <<>>

GetContainerCall ==
    /\ infoPc = "start"
    /\ imageArgs # <<>>
    /\ containerRet' = <<GetContainer(imageArgs[1].imageName, imageArgs[1].imageId)>>
    /\ infoPc' = "done"
    /\ UNCHANGED <<imageArgs, podArg, selectorArg, nodeArg, podIds, componentRet, nodeRet, notInfo>>

PodInfoCall ==
    /\ infoPc = "start"
    /\ podArg # <<>>
    /\ podIds' = getImageIDsByStatuses(podArg[1])
    /\ componentRet' = <<PodInfo(podArg[1], selectorArg)>>
    /\ infoPc' = "done"
    /\ UNCHANGED <<imageArgs, podArg, selectorArg, nodeArg, containerRet, nodeRet, notInfo>>

NodeInfoCall ==
    /\ infoPc = "start"
    /\ nodeArg # <<>>
    /\ nodeRet' = <<NodeInfo(nodeArg[1])>>
    /\ infoPc' = "done"
    /\ UNCHANGED <<imageArgs, podArg, selectorArg, nodeArg, podIds, containerRet, componentRet, notInfo>>

InfoNext ==
    \/ GetContainerCall
    \/ PodInfoCall
    \/ NodeInfoCall

\* --------------------------------------------------------- cluster.Platform
\* getOpenShiftVersion: "" when the resource is not mapped or the listing
\* fails, else status.desired.version of the last item ("" without items)
getOpenShiftVersion(clusterVersions) ==
    IF clusterVersions.mapperErr # "nil" THEN <<>>
    ELSE IF clusterVersions.listErr # "nil" THEN <<>>
    ELSE IF clusterVersions.Items = <<>> THEN <<>>
    ELSE clusterVersions.Items[Len(clusterVersions.Items)]

\* the switch of Platfrom on the constants k3s, rke2, microk8s, aks, eks
\* and gke
PlatformName(version, node) ==
    IF Contains(version, <<"k", "3", "s">>) THEN <<"k", "3", "s">>
    ELSE IF Contains(version, <<"r", "k", "e", "2">>) THEN <<"r", "k", "e", "2">>
    ELSE IF Contains(version, <<"m", "i", "c", "r", "o", "k", "8", "s">>)
    THEN <<"m", "i", "c", "r", "o", "k", "8", "s">>
    ELSE IF Contains(node, <<"a", "k", "s">>) THEN <<"a", "k", "s">>
    ELSE IF Contains(node, <<"e", "k", "s">>) THEN <<"e", "k", "s">>
    ELSE IF Contains(node, <<"g", "k", "e">>) THEN <<"g", "k", "e">>
    ELSE <<"k", "8", "s">>

\* what the cluster answers.  The clusterversions resource: not mapped, its
\* listing failing, without items, with one item or two
ClusterVersionAnswers ==
    { [mapperErr |-> "NoMatch", listErr |-> "nil", Items |-> <<>>],
      [mapperErr |-> "nil", listErr |-> "Forbidden", Items |-> <<>>],
      [mapperErr |-> "nil", listErr |-> "nil", Items |-> <<>>],
      [mapperErr |-> "nil", listErr |-> "nil", Items |-> << <<"4", ".", "1", "2", ".", "3">> >>],
      [mapperErr |-> "nil", listErr |-> "nil", Items |-> << <<"4", ".", "1", "2", ".", "3">>, <<>> >>] }

\* the node listing: failing, or the names of the nodes, which may be none
NodeListAnswers ==
    { [err |-> "Other", Items |-> <<>>],
      [err |-> "nil", Items |-> <<>>],
      [err |-> "nil", Items |-> << <<"a", "k", "s", "-", "1">> >>],
      [err |-> "nil", Items |-> << <<"i", "p", ".", "e", "k", "s">> >>],
      [err |-> "nil", Items |-> << <<"g", "k", "e", "-", "n">> >>],
      [err |-> "nil", Items |-> << <<"n", "1">> >>],
      [err |-> "nil", Items |-> << <<"n", "1">>, <<"a", "k", "s", "-", "1">> >>] }

\* ServerVersion: failing, or the Version of the Platform that
\* getPlatformInfoFromVersion makes of its GitVersion (the function is not
\* part of these sources, GitVersion is read by nothing else)
ServerVersionAnswers ==
    { [err |-> "Other", Version |-> <<>>] } \cup
    { [err |-> "nil", Version |-> v] :
        v \in { <<"1", ".", "2", "7">>,
                <<"1", ".", "2", "7", "+", "k", "3", "s", "1">>,
                <<"1", ".", "2", "7", "+", "r", "k", "e", "2", "r", "1">>,
                <<"1", ".", "2", "7", "-", "m", "i", "c", "r", "o", "k", "8", "s">>,
                <<>> } }

PlatIdle ==
    /\ platPc = "idle"
    /\ platIn = <<>>
    /\ nodeName = <<>>
    /\ platRet = <<>>

\* a call of Platform on a cluster
PlatInit ==
    /\ platPc = "openshift"
    /\ platIn \in { <<[clusterVersions |-> c, nodes |-> n, serverVersion |-> v]>> :
                      c \in ClusterVersionAnswers, n \in NodeListAnswers,
                      v \in ServerVersionAnswers }
    /\ nodeName = <<>>
    /\ platRet = <<>>

\* Platfrom: getOpenShiftVersion; a version makes the platform "ocp" (of
\* majorVersion, which is not part of these sources, the result is kept as a
\* term)
PlatfromOpenShiftVersion ==
    /\ platPc = "openshift"
    /\ LET v == getOpenShiftVersion(platIn[1].clusterVersions)
       IN IF Len(v) # 0
          THEN /\ platRet' = <<[Name |-> <<"o", "c", "p">>, Version |-> [majorVersionOf |-> v]]>>
               /\ platPc' = "done"
          ELSE /\ platPc' = "nodeName"
               /\ UNCHANGED platRet
    /\ UNCHANGED <<platIn, nodeName, notPlat>>

\* getNodeName: "k8s" when the listing fails, else the name of the first
\* node; nodes.Items[0] of a list without nodes is an index out of range, a
\* run-time panic that nothing recovers from
PlatfromGetNodeName ==
    /\ platPc = "nodeName"
    /\ LET nodes == platIn[1].nodes
       IN IF nodes.err # "nil"
          THEN /\ nodeName' = <<"k", "8", "s">>
               /\ platPc' = "serverVersion"
          ELSE IF Len(nodes.Items) = 0
          THEN /\ platPc' = "panic"
               /\ UNCHANGED nodeName
          ELSE /\ nodeName' = nodes.Items[1]
               /\ platPc' = "serverVersion"
    /\ UNCHANGED <<platIn, platRet, notPlat>>

\* ServerVersion and the rest of Platfrom; Platform replaces an error by
\* Platform{Name: "k8s", Version: "1.23.0"}
PlatfromServerVersion ==
    /\ platPc = "serverVersion"
    /\ LET semVersion == platIn[1].serverVersion
       IN platRet' = IF semVersion.err # "nil"
                     THEN <<[Name |-> <<"k", "8", "s">>,
                             Version |-> <<"1", ".", "2", "3", ".", "0">>]>>
                     ELSE <<[Name |-> PlatformName(semVersion.Version, nodeName),
                             Version |-> semVersion.Version]>>
    /\ platPc' = "done"
    /\ UNCHANGED <<platIn, nodeName, notPlat>>

PlatNext ==
    \/ PlatfromOpenShiftVersion
    \/ PlatfromGetNodeName
    \/ PlatfromServerVersion

\* -------------------------------------------------------- specifications
JobNext ==
    \/ RunCreateFails
    \/ RunCreate
    \/ RunAddEventHandlerFails
    \/ RunStart
    \/ RunReceiveJob
    \/ RunReceiveEvent
    \/ JobNotify
    \/ EventNotify
    \/ Resync
    \/ EnvJobCondition
    \/ EnvEvent
    \/ CtxCancel

\* Run alone
JobSpecInit == JobInit /\ CredIdle /\ BomIdle /\ ArtIdle /\ InfoIdle /\ PlatIdle

JobSpec == JobSpecInit /\ [][JobNext]_vars

\* the steps of Run and of the informers' goroutines are taken when they can
\* be; nothing obliges the cluster to change a job or to create an event
JobFairness ==
    /\ WF_vars(RunCreate \/ RunCreateFails)
    /\ WF_vars(RunStart \/ RunAddEventHandlerFails)
    /\ WF_vars(RunReceiveJob \/ RunReceiveEvent)
    /\ WF_vars(JobNotify)
    /\ WF_vars(EventNotify)
    /\ WF_vars(Resync)

FairJobSpec == JobSpec /\ JobFairness


\* the credential resolver alone
CredSpecInit == CredInit /\ JobIdle /\ BomIdle /\ ArtIdle /\ InfoIdle /\ PlatIdle

CredSpec == CredSpecInit /\ [][CredNext]_vars

\* the BOM assembler alone
BomSpecInit == BomInit /\ JobIdle /\ CredIdle /\ ArtIdle /\ InfoIdle /\ PlatIdle

BomSpec == BomSpecInit /\ [][BomNext]_vars

\* the extractor alone
ArtifactSpecInit == ArtInit /\ JobIdle /\ CredIdle /\ BomIdle /\ InfoIdle /\ PlatIdle

ArtifactSpec == ArtifactSpecInit /\ [][ArtNext]_vars

\* the parser, PodInfo and NodeInfo alone
InfoSpecInit == InfoInit /\ JobIdle /\ CredIdle /\ BomIdle /\ ArtIdle /\ PlatIdle

InfoSpec == InfoSpecInit /\ [][InfoNext]_vars

\* Platform alone
PlatformSpecInit == PlatInit /\ JobIdle /\ CredIdle /\ BomIdle /\ ArtIdle /\ InfoIdle

PlatformSpec == PlatformSpecInit /\ [][PlatNext]_vars

Init ==
    \/ JobSpecInit
    \/ CredSpecInit
    \/ BomSpecInit
    \/ ArtifactSpecInit
    \/ InfoSpecInit
    \/ PlatformSpecInit

Next == JobNext \/ CredNext \/ BomNext \/ ArtNext \/ InfoNext \/ PlatNext

Spec == Init /\ [][Next]_vars

\* ------------------------------------------------------- claims: the runner
HasTerminal(conds) == \E i \in 1..Len(conds) : conds[i] \in TerminalTypes

\* the first condition of a terminal type in a status ("none" without one);
\* conditions are only ever added, so it never changes once there is one
FirstTerminal(conds) ==
    IF HasTerminal(conds)
    THEN conds[CHOOSE i \in 1..Len(conds) :
                 /\ conds[i] \in TerminalTypes
                 /\ \A j \in 1..(i - 1) : conds[j] \notin TerminalTypes]
    ELSE "none"

\* Run has returned what a handler sent on complete
RunDecided == runPc = "done" /\ runErr \in {SigNil, SigJobFailed, SigWarning}

\* the outcome agrees with what the cluster holds about the tracked job
OutcomeFromTrackedJob ==
    /\ runPc # "done" => runErr = "pending"
    /\ runPc = "done" => runErr # "pending"
    /\ runErr = SigNil =>
          FirstTerminal(jobs[TrackedUID]) \in {JobComplete, JobSuccessCriteriaMet}
    /\ runErr = SigJobFailed => FirstTerminal(jobs[TrackedUID]) = JobFailed
    /\ runErr = SigWarning => warned

\* C1: Run returns one outcome, that of a terminal signal about the tracked
\* job's UID: nil only when the first terminal condition of the tracked job
\* is Complete or SuccessCriteriaMet, "job failed" only when it is Failed,
\* "warning event received" only when a Warning event about the tracked job
\* exists; what happens to a job of another UID decides nothing; and once
\* Run has returned, its outcome never changes.
C1_OneOutcomeFromTrackedUID ==
    /\ []OutcomeFromTrackedJob
    /\ [][runPc = "done" => (runPc' = "done" /\ runErr' = runErr)]_vars

\* C1 witness: Run returned failure for the tracked job although the other
\* job is complete and a Warning event about the other job was handled
C1_Witness ==
    /\ runPc = "done"
    /\ runErr = SigJobFailed
    /\ jobs[TrackedUID] = <<JobSuspended, JobFailed>>
    /\ jobs[OtherUID] = <<JobComplete>>
    /\ ~warned
    /\ eventQ = <<>>
    /\ jobQ = <<>>

\* C2: once the tracked job carries a terminal condition, Run returns
\* (under JobFairness), also when the condition was there before the
\* informers started.
C2_TerminalJobEndsRun ==
    (TrackedUID \in created /\ HasTerminal(jobs[TrackedUID])) ~> (runPc = "done")

\* C2 witness: Run returned nil for a job that was terminal when the
\* informers started.  The signal came from a resync: the update of the other
\* job that the same resync queued is still pending, and the job handler is
\* not blocked, so the tracked job's update of that resync is the only one
\* that signalled (an update sent when the condition was added would have
\* been handled first, and the resync's would then block the handler)
C2_Witness ==
    /\ runPc = "done"
    /\ runErr = SigNil
    /\ jobCb = NoSignal
    /\ jobs[TrackedUID] = <<JobSuccessCriteriaMet>>
    /\ jobQ = <<[kind |-> "update", uid |-> OtherUID, conds |-> <<JobComplete>>]>>

\* C3: a cancelled context unblocks the wait of Run, so Run returns.
C3_CancelUnblocksRun ==
    (ctxDone /\ runPc = "wait") ~> (runPc = "done")

\* ------------------------------------------------ claims: the credentials
\* a secret whose payload mapDockerRegistryServersToAuths merges
IsDockerSecret(secret) ==
    /\ secret.type \in {SecretTypeDockerConfigJson, SecretTypeDockercfg}
    /\ secret.hasRequiredData

\* the secrets of a list that define a server, in the order of the list
Defining(secs, server) ==
    SelectSeq(secs, LAMBDA x : IsDockerSecret(x) /\ server \in DOMAIN x.auths)

\* strs[1] "," strs[2] "," ... "," strs[n], for n >= 1
RECURSIVE JoinComma(_)
JoinComma(strs) ==
    IF Len(strs) = 1 THEN strs[1]
    ELSE strs[1] \o Comma \o JoinComma(Tail(strs))

Usernames(secs, server) == [i \in 1..Len(secs) |-> secs[i].auths[server].Username]
Passwords(secs, server) == [i \in 1..Len(secs) |-> secs[i].auths[server].Password]

\* the resolution returned a mapping built from secrets
Merged == credPc \in {"done", "resolved"} /\ podSpec # <<>> /\ credErr = "nil"

\* C4: the mapping that mapDockerRegistryServersToAuths(secrets, true)
\* returns holds exactly the servers that the Docker secrets of the list
\* define; the user name (password) of a server is the user names
\* (passwords) of the secrets defining it, in the order of the list, joined
\* by commas; a list of one secret gives that secret's credentials unchanged.
C4_MergeJoinsInSecretOrder ==
    Merged =>
        LET m == credRet[1]
        IN /\ DOMAIN m = {server \in UNION {DOMAIN secrets[i].auths : i \in 1..Len(secrets)} :
                             Defining(secrets, server) # <<>>}
           /\ \A server \in DOMAIN m :
                 /\ m[server].Username = JoinComma(Usernames(Defining(secrets, server), server))
                 /\ m[server].Password = JoinComma(Passwords(Defining(secrets, server), server))
           /\ Len(secrets) = 1 =>
                 \A server \in DOMAIN m : m[server] = secrets[1].auths[server]

\* C4 witness: three secrets define "a.c" (s1, s2 and s1 again): "u,v,u"
C4_Witness ==
    /\ Merged
    /\ Len(secrets) = 3
    /\ Host_ac \in DOMAIN credRet[1]
    /\ credRet[1][Host_ac] = Auth(<<"u", ",", "v", ",", "u">>, <<"p", ",", "r", ",", "p">>)

\* the secrets a list of references resolves to: the references with a name
\* whose lookup succeeds, in order
RECURSIVE Resolved(_)
Resolved(refs) ==
    IF refs = <<>> THEN <<>>
    ELSE (IF Head(refs) # "" /\ SecretGet(Head(refs)).err = "nil"
          THEN SecretGet(Head(refs)).secret ELSE <<>>)
         \o Resolved(Tail(refs))

\* the references of the service account that the spec names, or of
\* "default" when it names none
AccountRefs(spec) ==
    IF spec.ServiceAccountName = ""
    THEN ServiceAccountGet("default").ImagePullSecrets
    ELSE ServiceAccountGet(spec.ServiceAccountName).ImagePullSecrets

\* reading the service account fails with an error other than not-found and
\* forbidden: the resolution stops before any reference is collected
AccountFails(spec) ==
    LET name == IF spec.ServiceAccountName = "" THEN "default" ELSE spec.ServiceAccountName
    IN ServiceAccountGet(name).err \notin {"nil", "NotFound", "Forbidden"}

\* C5: the references of the service account come before those of the pod
\* spec, and when secrets of both define a server, the merged user name
\* (password) is the service account's part, a comma, the pod spec's part.
C5_ServiceAccountSecretsFirst ==
    (credPc \in {"refs", "done", "resolved"} /\ podSpec # <<>> /\ ~AccountFails(podSpec[1])) =>
        LET spec == podSpec[1]
            ofAccount == Resolved(AccountRefs(spec))
            ofSpec == Resolved(spec.ImagePullSecrets)
        IN /\ imagePullSecrets = AccountRefs(spec) \o spec.ImagePullSecrets
           /\ Merged =>
                \A server \in DOMAIN credRet[1] :
                    (Defining(ofAccount, server) # <<>> /\ Defining(ofSpec, server) # <<>>) =>
                        /\ credRet[1][server].Username =
                              JoinComma(Usernames(Defining(ofAccount, server), server))
                              \o Comma \o
                              JoinComma(Usernames(Defining(ofSpec, server), server))
                        /\ credRet[1][server].Password =
                              JoinComma(Passwords(Defining(ofAccount, server), server))
                              \o Comma \o
                              JoinComma(Passwords(Defining(ofSpec, server), server))

\* C5 witness: no account is named, "default" holds s1 and the spec s2:
\* "a.c" gets "u,v"
C5_Witness ==
    /\ Merged
    /\ podSpec[1].ServiceAccountName = ""
    /\ podSpec[1].ImagePullSecrets = <<"s2">>
    /\ credRet[1][Host_ac] = Auth(<<"u", ",", "v">>, <<"p", ",", "r">>)

\* a reference of the list whose lookup fails with an error other than
\* not-found and forbidden
FatalRef(refs) ==
    \E i \in 1..Len(refs) :
        /\ refs[i] # ""
        /\ SecretGet(refs[i]).err \notin {"nil", "NotFound", "Forbidden"}

\* the lookups are over
LookupsOver ==
    /\ credPc \in {"done", "resolved"}
    /\ podSpec # <<>>
    /\ ~AccountFails(podSpec[1])

\* C6: references whose lookup fails with not-found or forbidden are left
\* out and the others are resolved, in order; a lookup that fails otherwise
\* makes the resolution return an error and no mapping.
C6_SkipMissingAbortOnOther ==
    /\ credErr # "nil" => credRet = <<>>
    /\ LookupsOver =>
          IF FatalRef(imagePullSecrets)
          THEN credErr # "nil" /\ credRet = <<>>
          ELSE secrets = Resolved(imagePullSecrets)

\* C6 witness: s1 was resolved before the lookup of "broken" failed, and
\* the resolution returned the error and no mapping
C6_Witness ==
    /\ credPc = "done"
    /\ imagePullSecrets = <<"s1", "denied", "broken">>
    /\ secrets = <<SecretObjects["s1"]>>
    /\ credErr # "nil"
    /\ credRet = <<>>

\* the keys of a mapping with the prefix "*." whose rest, from the ".", is a
\* suffix of the host
WildcardsOf(m, host) ==
    {k \in DOMAIN m : HasPrefix(k, <<"*", ".">>) /\ HasSuffix(host, Tail(k))}

\* C7: an image whose registry server is a key of the mapping gets that
\* entry; otherwise it gets the entry of a wildcard key that matches its
\* host; when there is neither it gets no credential; and no error in all
\* three cases.
C7_ExactThenWildcardThenNone ==
    (credPc = "resolved" /\ matched[1].imageRef # <<>>) =>
        LET m == credRet[1]
            host == GetServerFromImageRef(matched[1].imageRef).server
            got == matched[1]
        IN /\ got.err = "nil"
           /\ IF host \in DOMAIN m THEN got.auth = <<m[host]>>
              ELSE IF WildcardsOf(m, host) # {}
              THEN \E k \in WildcardsOf(m, host) : got.auth = <<m[k]>>
              ELSE got.auth = <<>>

\* C7 witness: "b.a.c" is a key and matches "*.a.c" and "*.c" too; the
\* image gets the entry of "b.a.c"
C7_Witness ==
    /\ credPc = "resolved"
    /\ matched[1].imageRef = Host_bac \o <<"/", "r">>
    /\ {Host_bac, Wild_ac, Wild_c} \subseteq DOMAIN credRet[1]
    /\ matched[1].auth = <<Auth(<<"y">>, <<"t">>)>>

\* ------------------------------------------------------ claims: the BOM
\* C8: a pod listing that fails with not-found or forbidden gives no
\* components for its selector and the build goes on; a pod listing that
\* fails with another error makes CreateBomComponents and CreateClusterBom
\* return an error and no result.
C8_PodListTransportErrorIsFatal ==
    (bomPc = "done" /\ "Other" \in podListErrs) => (bomErr # "nil" /\ bomRet = <<>>)

\* C9: a node listing that fails with not-found or forbidden gives an empty
\* node list and no error, and the result then holds the components and no
\* nodes; a node listing that fails with another error makes CreateClusterBom
\* return the error and no result; a result and an error are never returned
\* together.
C9_NodeListErrors ==
    /\ ~(bomRet # <<>> /\ bomErr # "nil")
    /\ nodeListErr \in {"NotFound", "Forbidden"} =>
          /\ nodesInfo = <<>>
          /\ bomErr # "list nodes"
          /\ (bomPc = "done" /\ bomErr = "nil") =>
                /\ bomRet # <<>>
                /\ bomRet[1].Components = bomComponents
                /\ bomRet[1].NodesInfo = <<>>
    /\ nodeListErr = "Other" => (bomPc = "done" /\ bomErr = "list nodes" /\ bomRet = <<>>)

\* C9 witness: the node listing was forbidden and CreateClusterBom returned
\* a result with components and no nodes
C9_Witness ==
    /\ bomPc = "done"
    /\ nodeListErr = "Forbidden"
    /\ bomErr = "nil"
    /\ bomRet # <<>>
    /\ Len(bomRet[1].Components) > 1
    /\ bomRet[1].NodesInfo = <<>>

\* ------------------------------------------------ claims: the extractor
\* the images of the list under a key of the pod spec that FromResource
\* reads for the resource's kind: the "image" of every entry that has one,
\* in the order of the list
RECURSIVE ImagesIn(_)
ImagesIn(items) ==
    IF items = <<>> THEN <<>>
    ELSE (IF Head(items).imageKind = "string" THEN <<Head(items).image>> ELSE <<>>)
         \o ImagesIn(Tail(items))

ImagesUnder(res, key) ==
    LET path == Append(NestedKeys(res.kind), key)
    IN IF path \in DOMAIN res.Object THEN ImagesIn(res.Object[path].items) ELSE <<>>

\* FromResource returned an Artifact
Extracted == artPc = "done" /\ artRet.err = "nil"

\* C10 as claimed: the image list is the images of the containers, then of
\* the init-containers, then of the ephemeral-containers, each in the order
\* of declaration, duplicates kept.
C10_ContainersInitEphemeral ==
    Extracted =>
        artRet.artifact[1].Images =
            ImagesUnder(resource, "containers")
            \o ImagesUnder(resource, "initContainers")
            \o ImagesUnder(resource, "ephemeralContainers")

\* C10 as amended: the image list is the images of the containers, then of
\* the ephemeral-containers, then of the init-containers, each in the order
\* of declaration, duplicates kept.
C10_ContainersEphemeralInit ==
    Extracted =>
        artRet.artifact[1].Images =
            ImagesUnder(resource, "containers")
            \o ImagesUnder(resource, "ephemeralContainers")
            \o ImagesUnder(resource, "initContainers")

\* C10 witness: a Deployment with containers a, a; init-containers b, a;
\* ephemeral-containers b: the images are a, a, b, b, a
C10_Witness ==
    /\ Extracted
    /\ resource.kind = KindDeployment
    /\ ImagesUnder(resource, "containers") = <<"a", "a">>
    /\ ImagesUnder(resource, "initContainers") = <<"b", "a">>
    /\ ImagesUnder(resource, "ephemeralContainers") = <<"b">>
    /\ artRet.artifact[1].Images = <<"a", "a", "b", "b", "a">>

\* the place of the pod spec for a kind
KindPath(kind) ==
    CASE kind = "Pod" -> <<"spec">>
      [] kind = "CronJob" -> <<"spec", "jobTemplate", "spec", "template", "spec">>
      [] OTHER -> <<"spec", "template", "spec">>

\* the value under a key of the pod spec at a path is there
Has(res, path, key) == Append(path, key) \in DOMAIN res.Object

\* something FromResource reads has not the type it expects: a list that
\* is no slice, an image or a name that is no string
Malformed(res, path) ==
    \/ res.nameKind = "number"
    \/ \E key \in ListKeys :
          /\ Has(res, path, key)
          /\ LET v == res.Object[Append(path, key)]
             IN \/ ~v.isSlice
                \/ \E i \in 1..Len(v.items) : v.items[i].imageKind = "number"

\* the images of the entries of the list under a key, none when the key is
\* not there
ImagesAt(res, path, key) ==
    IF Has(res, path, key) THEN ImagesIn(res.Object[Append(path, key)].items) ELSE <<>>

\* C11: the lists are read under "spec" for a Pod, under
\* "spec.jobTemplate.spec.template.spec" for a CronJob and under
\* "spec.template.spec" for every other kind, known or not; a resource whose
\* values there have the expected types gives an Artifact and no error, with
\* no images when no list is there; an entry without "image" adds nothing.
C11_PathByKindAndTolerance ==
    artPc = "done" =>
        LET path == KindPath(resource.kind)
        IN IF Malformed(resource, path)
           THEN artRet.err # "nil" /\ artRet.artifact = <<>>
           ELSE /\ artRet.err = "nil"
                /\ artRet.artifact # <<>>
                /\ artRet.artifact[1].Images =
                      ImagesAt(resource, path, "containers")
                      \o ImagesAt(resource, path, "ephemeralContainers")
                      \o ImagesAt(resource, path, "initContainers")
                /\ (\A key \in ListKeys : ~Has(resource, path, key)) =>
                      artRet.artifact[1].Images = <<>>

\* C11 witness: a resource of the unknown kind, without a name, whose only
\* list, under "spec.template.spec", holds an entry without image and one
\* with image b: the Artifact holds b
C11_Witness ==
    /\ artPc = "done"
    /\ resource.kind = KindWidget
    /\ resource.nameKind = "absent"
    /\ DOMAIN resource.Object = {<<"spec", "template", "spec", "containers">>}
    /\ Len(resource.Object[<<"spec", "template", "spec", "containers">>].items) = 2
    /\ resource.Object[<<"spec", "template", "spec", "containers">>].items[1].imageKind = "absent"
    /\ artRet.err = "nil"
    /\ artRet.artifact[1].Images = <<"b">>

\* ------------------------------------------- claims: the image parser
HexDigits ==
    {"0", "1", "2", "3", "4", "5", "6", "7", "8", "9",
     "a", "b", "c", "d", "e", "f", "A", "B", "C", "D", "E", "F"}

\* a string of exactly 64 hexadecimal characters
IsSha256Hex(str) == Len(str) = 64 /\ \A i \in 1..Len(str) : str[i] \in HexDigits

\* the digest of an image id: what follows the "@" of an id that has one (up
\* to a second "@"), without the prefix "sha256:"
DigestOf(imageId) ==
    LET atSign == {i \in 1..Len(imageId) : imageId[i] = "@"}
        first == CHOOSE i \in atSign : \A k \in atSign : i <= k
        after == SubSeq(imageId, first + 1, Len(imageId))
        second == {i \in 1..Len(after) : after[i] = "@"}
        part == IF atSign = {} THEN imageId
                ELSE IF second = {} THEN after
                ELSE SubSeq(after, 1, (CHOOSE i \in second : \A k \in second : i <= k) - 1)
    IN IF Len(part) >= 7 /\ SubSeq(part, 1, 7) = <<"s", "h", "a", "2", "5", "6", ":">>
       THEN SubSeq(part, 8, Len(part))
       ELSE part

\* C12: GetContainer returns a Container only for an image id whose digest
\* is 64 hexadecimal characters, and the Container holds that digest; for
\* every other image id it returns an error and no Container.
C12_DigestIs64Hex ==
    (infoPc = "done" /\ imageArgs # <<>>) =>
        LET d == DigestOf(imageArgs[1].imageId)
            ret == containerRet[1]
        IN /\ ret.container # <<>> => (IsSha256Hex(d) /\ ret.container[1].Digest = d)
           /\ ~IsSha256Hex(d) => (ret.container = <<>> /\ ret.err # "nil")

\* ------------------------------------------------- claims: PodInfo
\* PodInfo returned the Component of a pod
Described == infoPc = "done" /\ podArg # <<>>

\* the value of a label of the pod, "" when the pod has not the label
LabelOf(key) == IF key \in DOMAIN podArg[1].Labels THEN podArg[1].Labels[key] ELSE <<>>

\* the names an organization owns
Owned(org) == {Split(UpstreamOrgName[org], ",")[i] : i \in 1..Len(Split(UpstreamOrgName[org], ","))}

\* a name with the organization that owns it in front, if one does
WithOrg(name) ==
    IF \E org \in DOMAIN UpstreamOrgName : ToLower(name) \in Owned(org)
    THEN (CHOOSE org \in DOMAIN UpstreamOrgName : ToLower(name) \in Owned(org))
         \o <<"/">> \o name
    ELSE name

\* the canonical name of a raw name
Canonical(raw) == IF raw \in DOMAIN UpstreamRepoName THEN UpstreamRepoName[raw] ELSE raw

\* C13: a pod without the name label is named by the value of the label the
\* selector names, mapped through UpstreamRepoName, with the organization of
\* UpstreamOrgName in front if there is one; its Type is that of
\* CoreComponentPropertyType for the canonical name, else the component
\* label.
C13_NameFromSelectorLabel ==
    (Described /\ LabelOf("app.kubernetes.io/name") = <<>>) =>
        LET canonical == Canonical(LabelOf(selectorArg))
        IN /\ componentRet[1].Name = WithOrg(canonical)
           /\ componentRet[1].Properties.Type =
                 IF canonical \in DOMAIN CoreComponentPropertyType
                 THEN CoreComponentPropertyType[canonical]
                 ELSE LabelOf("app.kubernetes.io/component")

\* C13 witness: the selector label "api server" gives "k8s.io/apiserver" of
\* Type "controlPlane", although the pod has a component label
C13_Witness ==
    /\ Described
    /\ LabelOf("app.kubernetes.io/name") = <<>>
    /\ LabelOf("app.kubernetes.io/component") # <<>>
    /\ LabelOf(selectorArg) = <<"a", "p", "i", " ", "s", "e", "r", "v", "e", "r">>
    /\ componentRet[1].Name =
          <<"k", "8", "s", ".", "i", "o", "/", "a", "p", "i", "s", "e", "r", "v", "e", "r">>
    /\ componentRet[1].Properties.Type = "controlPlane"

\* C14: a pod with the name and the version label is named by the name
\* label, with its organization in front if it has one, has the version
\* label as version, and has the Type CoreComponentPropertyType gives for its
\* name, or none.
C14_NameAndVersionLabels ==
    (Described /\ LabelOf("app.kubernetes.io/name") # <<>>
               /\ LabelOf("app.kubernetes.io/version") # <<>>) =>
        LET name == LabelOf("app.kubernetes.io/name")
        IN /\ componentRet[1].Name = WithOrg(name)
           /\ componentRet[1].Version = LabelOf("app.kubernetes.io/version")
           /\ componentRet[1].Properties.Type =
                 IF name \in DOMAIN CoreComponentPropertyType
                 THEN CoreComponentPropertyType[name]
                 ELSE <<>>

\* ------------------------------------------------ claims: versions
\* a version that names a distribution
DistroTagged(version) ==
    Contains(version, <<"r", "k", "e", "2">>) \/ Contains(version, <<"k", "3", "s">>)

\* the markers of a distribution, in the order they are looked for
DistroMarkers ==
    << <<"+", "r", "k", "e", "2">>, <<"-", "r", "k", "e", "2">>, <<"-", "k", "3", "s">> >>

\* a version without its marker and what follows it
Upstream(version) ==
    IF \E m \in 1..Len(DistroMarkers) : Contains(version, DistroMarkers[m])
    THEN LET first == CHOOSE m \in 1..Len(DistroMarkers) :
                          /\ Contains(version, DistroMarkers[m])
                          /\ \A k \in 1..(m - 1) : ~Contains(version, DistroMarkers[k])
         IN SubSeq(version, 1, Index(version, DistroMarkers[first]))
    ELSE version

\* a version without one leading "v" or "V", and without all of them
LeadingTrimmed(version) ==
    { IF version # <<>> /\ version[1] \in {"v", "V"} THEN Tail(version) ELSE version,
      LET kept == {i \in 1..Len(version) : version[i] \notin {"v", "V"}}
      IN IF kept = {} THEN <<>>
         ELSE SubSeq(version, CHOOSE i \in kept : \A k \in kept : i <= k, Len(version)) }

\* a version without "v", then "V", then spaces, at both of its ends
Trimmed(version) == Trim(Trim(Trim(version, "v"), "V"), " ")

\* the name PodInfo derives, before an organization is put in front
DerivedName ==
    IF LabelOf("app.kubernetes.io/name") # <<>>
    THEN LabelOf("app.kubernetes.io/name")
    ELSE Canonical(LabelOf(selectorArg))

\* the version of the first of the Containers that qualifies(c), "" if none
\* does
FirstVersion(qualifies(_)) ==
    LET cs == componentRet[1].Containers
    IN IF \E i \in 1..Len(cs) : qualifies(cs[i])
       THEN LET c == cs[CHOOSE i \in 1..Len(cs) :
                          qualifies(cs[i]) /\ \A j \in 1..(i - 1) : ~qualifies(cs[j])]
            IN IF DistroTagged(c.Version) THEN Upstream(c.Version) ELSE c.Version
       ELSE <<>>

\* a Container whose version names a distribution or contains the derived
\* name
ByVersion(c) == DistroTagged(c.Version) \/ Contains(c.Version, DerivedName)

\* a Container whose version names a distribution or whose ID contains the
\* value of the label the selector names
ById(c) == DistroTagged(c.Version) \/ Contains(c.ID, LabelOf(selectorArg))

\* C15, as stated: without a version label the version is that of the first
\* Container whose version names a distribution (without the suffix of the
\* distribution) or contains the derived name, "" if there is none; a
\* version label is used unchanged.
C15_VersionFromContainers ==
    Described =>
        componentRet[1].Version =
            IF LabelOf("app.kubernetes.io/version") # <<>>
            THEN LabelOf("app.kubernetes.io/version")
            ELSE FirstVersion(ByVersion)

\* C15, amended: without a version label the version is that of the first
\* Container whose version names a distribution (cut at its marker) or
\* whose ID contains the value of the label the selector names, with "v",
\* then "V", then spaces removed at both ends, "" if there is none; a
\* version label is used unchanged.
C15_VersionFromContainerIds ==
    Described =>
        componentRet[1].Version =
            IF LabelOf("app.kubernetes.io/version") # <<>>
            THEN LabelOf("app.kubernetes.io/version")
            ELSE Trimmed(FirstVersion(ById))

\* C15 witness: the first Container (a:v1) does not qualify, the ID of the
\* second (b:latest) contains the selector label "b", no version having
\* it
C15_Witness ==
    /\ Described
    /\ LabelOf("app.kubernetes.io/version") = <<>>
    /\ LabelOf(selectorArg) = <<"b">>
    /\ Len(componentRet[1].Containers) = 2
    /\ componentRet[1].Containers[1].Version = <<"v", "1">>
    /\ ~ById(componentRet[1].Containers[1])
    /\ componentRet[1].Version = <<"l", "a", "t", "e", "s", "t">>

\* C16: the kubelet version of NodeInfo is the reported one without its
\* "+rke2", "-rke2" or "-k3s" marker and what follows, and without a leading
\* "v" or "V"; every other character is kept.
C16_KubeletVersionLeadingV ==
    (infoPc = "done" /\ nodeArg # <<>>) =>
        nodeRet[1].KubeletVersion \in LeadingTrimmed(Upstream(nodeArg[1].KubeletVersion))

\* ------------------------------------------------ claims: image ids
\* C17: there is one id for every declared container; with one container
\* and one status the id is that of the status; otherwise the id of
\* container i is that of a status of its image, and that of the declared
\* image when no status has its image, so that without statuses every
\* declared image with a digest gives a Container.
C17_IdsByStatus ==
    Described =>
        LET p == podArg[1]
            images == p.Containers
            statuses == p.ContainerStatuses
        IN /\ Len(podIds) = Len(images)
           /\ (Len(images) = 1 /\ Len(statuses) = 1) =>
                  podIds[1] = getImageID(statuses[1].ImageID)
           /\ ~(Len(images) = 1 /\ Len(statuses) = 1) =>
                  \A i \in 1..Len(images) :
                      IF \E j \in 1..Len(statuses) : statuses[j].Image = images[i]
                      THEN \E j \in 1..Len(statuses) :
                              /\ statuses[j].Image = images[i]
                              /\ podIds[i] = getImageID(statuses[j].ImageID)
                      ELSE podIds[i] = getImageID(images[i])
           /\ (statuses = <<>> /\ \A i \in 1..Len(images) :
                                     Contains(images[i], <<"@">> \o Sha256Prefix)) =>
                  Len(componentRet[1].Containers) = Len(images)

\* C17 witness: two declared images with a digest and no status give two
\* Containers with that digest
C17_Witness ==
    /\ Described
    /\ podArg[1].ContainerStatuses = <<>>
    /\ Len(podArg[1].Containers) = 2
    /\ \A i \in 1..2 : Contains(podArg[1].Containers[i], <<"@">> \o Sha256Prefix)
    /\ Len(componentRet[1].Containers) = 2
    /\ componentRet[1].Containers[1].Digest = HexA

\* ------------------------------------------------ claims: determinism
\* C18: the credential of an image is the same whatever order the map of the
\* credentials is iterated in, also with several wildcard keys that match
\* the host of the image.
C18_ResolutionDeterministic ==
    credPc = "resolved" =>
        \A wildcardServers \in Orders(GetWildcardServers(credRet[1])) :
            MapContainerNamesToDockerAuths(matched[1].imageRef, credRet[1],
                                           wildcardServers).auth = matched[1].auth

\* ------------------------------------------------ claims: callbacks
\* C19: a handler that is blocked sending a terminal signal on complete is
\* unblocked later (the signal is received or dropped), also when Run has
\* returned after another signal.
C19_NoCallbackBlockedForever ==
    /\ (jobCb # NoSignal) ~> (jobCb = NoSignal)
    /\ (eventCb # NoSignal) ~> (eventCb = NoSignal)

\* ------------------------------------------------ claims: Platform
\* C20: Platform returns a Platform on every cluster, the default ("k8s",
\* "1.23.0") when the detection fails, and never reads the first node of a
\* list without nodes.
C20_PlatformAlwaysReturns ==
    /\ platPc # "panic"
    /\ platPc = "done" => platRet # <<>>
    /\ (platPc = "done" /\ nodeName # <<>> /\ platIn[1].serverVersion.err # "nil") =>
           platRet[1] = [Name |-> <<"k", "8", "s">>, Version |-> <<"1", ".", "2", "3", ".", "0">>]

=============================================================================
